---- MODULE Spec2Model ----
(***************************************************************************)
(* Review pipeline of the enterprise-grade AI reviewer: the model call     *)
(* clients with their retry policies, the parallel scanner fan-out, the    *)
(* judge step, the judge response parser, the diff normalizer and the      *)
(* comment of the review on the pull request.                              *)
(*                                                                         *)
(* Texts are sequences of tokens (words); a keyword test such as           *)
(* message.includes('timeout') is a search over the tokens, with the       *)
(* tokens that hold a keyword as a proper substring listed in Substrings.  *)
(* Time is not modelled: a timer firing while a request is in flight is    *)
(* the response kind "abort", durations (durationMs) are left out.         *)
(***************************************************************************)
EXTENDS Integers, Sequences, FiniteSets, TLC

VARIABLES
    input,           \* the diff text and the configured language of the run
    entry,           \* which entry point runs the pipeline
    pc,              \* position of the pipeline
    scan,            \* per scanner model: the state of its runSingleScanner call
    order,           \* scanner indexes in the order their calls settled
    scannerResults,  \* the array runScanners returned
    judge,           \* the state of the judge model call
    judgeResult,     \* what the judge step produced
    posted,          \* the comments the run tried to post, in order
    exit,            \* how the run ended
    call,            \* one model call observed on its own (requests, sleeps)
    review,          \* one judge response and the FinalReview parsed from it
    norm,            \* one normalizeDiff input and its NormalizedDiff
    pr,              \* the comments of one pull request and the calls that upsert
    backoff,         \* the delays calculateDelay gave for retries 1, 2, ... of a call
    par              \* one call of parallel or of allSettled: its workers and results

vars == <<input, entry, pc, scan, order, scannerResults, judge, judgeResult, posted,
          exit, call, review, norm, pr, backoff, par>>

pipelineVars == <<input, entry, pc, scan, order, scannerResults, judge, judgeResult,
                  posted, exit>>

Null == "null"

\* The value of a property that is not there.
Undefined == [undefined |-> TRUE]

(***************************************************************************)
(* Texts                                                                   *)
(***************************************************************************)

\* Tokens that contain a keyword as a proper substring.
Substrings ==
    { <<"aborted", "abort">>, <<"Timeout", "imeout">>, <<"LGTM!", "LGTM">>,
      <<"Importants", "Important">>, <<"Importantes", "Important">>,
      <<"JuudaiNaMondai", "Juudai">>, <<"JuuyouNaMondai", "Juuyou">>,
      <<"JuuyouWenti", "Juuyou">>, <<"TeiYuusendo", "Tei">>,
      <<"TeiYouxianji", "Tei">> }

\* String.prototype.toLowerCase on one token.
ToLowerToken(tok) ==
    CASE tok = "Timeout" -> "timeout"
      [] tok = "APPROVE" -> "approve"
      [] tok = "REQUEST_CHANGES" -> "request_changes"
      [] tok = "Verdict" -> "verdict"
      [] tok = "Summary" -> "summary"
      [] tok = "Urteil" -> "urteil"
      [] tok = "COMMENT" -> "comment"
      [] tok = "LGTM" -> "lgtm"
      [] tok = "Looks good" -> "looks good"
      [] tok = "Rate limit" -> "rate limit"
      [] OTHER -> tok

toLowerCase(text) == [i \in 1..Len(text) |-> ToLowerToken(text[i])]

TokenHas(tok, kw) == tok = kw \/ <<tok, kw>> \in Substrings

\* String.prototype.includes
includes(text, kw) == \E i \in 1..Len(text) : TokenHas(text[i], kw)

\* text.trim().length === 0 : blank tokens carry no character but white space
trimIsEmpty(text) == \A i \in 1..Len(text) : text[i] = " "

(***************************************************************************)
(* Responses of the model transport                                        *)
(***************************************************************************)

\* A response of fetch: an HTTP response with its status and its text (the
\* message content of a 200, the error body otherwise), or a rejection of
\* fetch: the abort of the attempt's timer, a network failure, or a 200
\* whose body is not JSON.
HttpResponse(status, text) ==
    [kind |-> "http", status |-> status, text |-> text]

AbortResponse == [kind |-> "abort", status |-> 0, text |-> <<>>]

NetworkResponse == [kind |-> "network", status |-> 0, text |-> <<>>]

BadJsonResponse == [kind |-> "badjson", status |-> 200, text |-> <<>>]

\* response.ok
ResponseOk(resp) == resp.status >= 200 /\ resp.status <= 299

\* data.usage.total_tokens : one token of usage per token of content
UsageTokens(resp) == Len(resp.text)

AbortError == [name |-> "AbortError", message |-> <<"This", "operation", "was", "aborted">>]

FetchFailed == [name |-> "TypeError", message |-> <<"fetch", "failed">>]

JsonError == [name |-> "SyntaxError", message |-> <<"Unexpected", "token">>]

NoError == [name |-> Null, message |-> <<>>]

\* What fetch (and response.json()) rejects with, for a response that is a
\* rejection.
FetchRejection(resp) ==
    CASE resp.kind = "abort" -> AbortError
      [] resp.kind = "network" -> FetchFailed
      [] resp.kind = "badjson" -> JsonError
      [] OTHER -> NoError

\* One step of a client's retry loop: what the attempt ends in.
\*   next = "return": the call resolves with content and tokensUsed
\*   next = "throw" : the call rejects with error
\*   next = "retry" : the call sleeps delay ms and makes another attempt
\* caught tells whether the loop's catch block ran (and set lastError).
StepReturn(content, tokensUsed) ==
    [next |-> "return", content |-> content, tokensUsed |-> tokensUsed,
     error |-> NoError, delay |-> 0, caught |-> FALSE]

\* new Error('OpenRouter request failed after retries')
RetriesFailedError ==
    [name |-> "Error",
     message |-> <<"OpenRouter", "request", "failed", "after", "retries">>]

StepThrowReplaced(error) ==
    [next |-> "throw", content |-> <<>>, tokensUsed |-> 0,
     error |-> RetriesFailedError, delay |-> 0, caught |-> TRUE]

StepThrow(error) ==
    [next |-> "throw", content |-> <<>>, tokensUsed |-> 0,
     error |-> error, delay |-> 0, caught |-> TRUE]

StepRetry(error, delay, caught) ==
    [next |-> "retry", content |-> <<>>, tokensUsed |-> 0,
     error |-> error, delay |-> delay, caught |-> caught]

(***************************************************************************)
(* callOpenRouter(config, model, messages, maxTokens, temperature)         *)
(***************************************************************************)

maxRetries == 3

backoffDelaysFlat == <<1000, 1000, 1000>>

backoffDelays == <<1000, 2000, 4000>>

isRetryableStatus(status) ==
    \/ status = 429
    \/ (status >= 500 /\ status < 600)

ApiError(status, errorText) ==
    [name |-> "Error",
     message |-> <<"OpenRouter", "API", "error", ToString(status)>> \o errorText]

EmptyResponseError ==
    [name |-> "Error", message |-> <<"OpenRouter", "returned", "empty", "response">>]

callOpenRouterCatchNetworkOnly(attempt, error) ==
    LET isNetworkError ==
            \/ includes(error.message, "fetch")
            \/ includes(error.message, "network")
    IN  IF isNetworkError /\ attempt < maxRetries - 1
        THEN StepRetry(error, backoffDelays[attempt + 1], TRUE)
        ELSE StepThrow(error)

\* The catch block of an attempt (attempt counts from 0).
callOpenRouterCatch(attempt, error) ==
    LET isTimeout ==
            \/ error.name = "AbortError"
            \/ includes(error.message, "abort")
            \/ includes(error.message, "timeout")
        isNetworkError ==
            \/ includes(error.message, "fetch")
            \/ includes(error.message, "network")
            \/ includes(error.message, "ECONNREFUSED")
            \/ includes(error.message, "ENOTFOUND")
    IN  IF (isTimeout \/ isNetworkError) /\ attempt < maxRetries - 1
        THEN StepRetry(error, backoffDelays[attempt + 1], TRUE)
        ELSE StepThrow(error)

\* The try block of an attempt, given what fetch answered.
callOpenRouterAttempt(attempt, resp) ==
    IF resp.kind # "http"
    THEN callOpenRouterCatch(attempt, FetchRejection(resp))
    ELSE IF ~ResponseOk(resp)
    THEN IF resp.status = 400
         THEN callOpenRouterCatch(attempt, ApiError(400, resp.text))
         ELSE IF isRetryableStatus(resp.status) /\ attempt < maxRetries - 1
         THEN StepRetry(NoError, backoffDelays[attempt + 1], FALSE)
         ELSE callOpenRouterCatch(attempt, ApiError(resp.status, resp.text))
    ELSE IF resp.text = <<>>
    THEN callOpenRouterCatch(attempt, EmptyResponseError)
    ELSE StepReturn(resp.text, UsageTokens(resp))

(***************************************************************************)
(* OpenRouterClient.chat / makeRequest over withRetry                      *)
(***************************************************************************)

maxAttempts == 3

initialDelayMs == 1000

maxDelayMs == 30000

backoffMultiplier == 2

RECURSIVE Pow(_, _)
Pow(b, e) == IF e = 0 THEN 1 ELSE b * Pow(b, e - 1)

Min(a, b) == IF a <= b THEN a ELSE b

\* calculateDelay without its jitter.
baseDelay(attempt) ==
    Min(initialDelayMs * Pow(backoffMultiplier, attempt - 1), maxDelayMs)

\* The values Math.round(delay + delay * 0.25 * Math.random()) is drawn
\* from: no jitter, half of it, all of it.
JitterChoices(attempt) ==
    { 0, baseDelay(attempt) \div 8, baseDelay(attempt) \div 4 }

calculateDelayWideJitter(attempt, jitterAmount) == baseDelay(attempt) + 4 * jitterAmount

calculateDelay(attempt, jitterAmount) == baseDelay(attempt) + jitterAmount

MaxRetry == 7

\* calculateDelay is asked for the delay before the next retry of a call
\* whose attempts keep failing.
CalculateDelayReturns(jitterAmount) ==
    /\ Len(backoff) < MaxRetry
    /\ jitterAmount \in JitterChoices(Len(backoff) + 1)
    /\ backoff' = Append(backoff, calculateDelay(Len(backoff) + 1, jitterAmount))
    /\ UNCHANGED <<input, entry, pc, scan, order, scannerResults, judge, judgeResult,
                   posted, exit, call, review, norm, pr, par>>

ClientError(status, errorText) ==
    [name |-> "Error",
     message |-> <<"OpenRouter", "API", "error", ToString(status)>> \o errorText]

\* isRetryable of makeRequest
isRetryable(error) ==
    LET message == toLowerCase(error.message)
    IN  \/ includes(message, "429")
        \/ includes(message, "rate limit")
        \/ includes(message, "timeout")
        \/ includes(message, "503")
        \/ includes(message, "502")

\* The error the function handed to withRetry throws for a response, or
\* NoError when it returns the response.
makeRequestError(resp) ==
    IF resp.kind # "http" THEN FetchRejection(resp)
    ELSE IF ~ResponseOk(resp) THEN ClientError(resp.status, resp.text)
    ELSE NoError

withRetryAttemptSleepsLast(attempt, resp, jitterAmount) ==
    LET error == makeRequestError(resp)
    IN  IF error = NoError
        THEN StepReturn(resp.text, UsageTokens(resp))
        ELSE IF ~isRetryable(error)
        THEN StepThrow(error)
        ELSE StepRetry(error, calculateDelay(attempt, jitterAmount), TRUE)

\* One pass of withRetry's loop (attempt counts from 1), then chat's reading
\* of the response: content is '' when the response holds none.
withRetryAttempt(attempt, resp, jitterAmount) ==
    LET error == makeRequestError(resp)
    IN  IF error = NoError
        THEN StepReturn(resp.text, UsageTokens(resp))
        ELSE IF attempt = maxAttempts \/ ~isRetryable(error)
        THEN StepThrow(error)
        ELSE StepRetry(error, calculateDelay(attempt, jitterAmount), TRUE)

(***************************************************************************)
(* The two clients side by side                                            *)
(***************************************************************************)

Clients == {"config", "withRetry"}

\* The loop variable's first value: for (attempt = 0; ...) and
\* for (attempt = 1; ...).
FirstAttempt(client) == IF client = "config" THEN 0 ELSE 1

JitterOf(client, attempt) ==
    IF client = "config" THEN {0} ELSE JitterChoices(attempt)

ClientAttempt(client, attempt, resp, jitterAmount) ==
    IF client = "config"
    THEN callOpenRouterAttempt(attempt, resp)
    ELSE withRetryAttempt(attempt, resp, jitterAmount)

(***************************************************************************)
(* One model call on its own: its requests, its sleeps, its result         *)
(***************************************************************************)

CallErrorBodies ==
    { <<"Bad", "request">>, <<"request", "timeout">>,
      <<"network", "error">>, <<"Gateway", "Timeout">> }

CallErrorStatuses == {400, 401, 429, 500, 503}

CallResponses ==
    { HttpResponse(200, <<"finding">>), HttpResponse(200, <<>>) }
    \cup { HttpResponse(s, b) : s \in CallErrorStatuses, b \in CallErrorBodies }
    \cup { AbortResponse, NetworkResponse, BadJsonResponse }

Pending ==
    [next |-> "pending", content |-> <<>>, tokensUsed |-> 0,
     error |-> NoError, delay |-> 0, caught |-> FALSE]

\* The call as it is entered: the first request is in flight.
NewCall(client) ==
    [client |-> client, pc |-> "fetch", attempt |-> FirstAttempt(client),
     requests |-> 1, sleeps |-> <<>>, history |-> <<>>,
     lastError |-> NoError, result |-> Pending, timers |-> <<"armed">>]

\* No call is observed.
CallOff == [NewCall("config") EXCEPT !.pc = "off", !.requests = 0, !.timers = <<>>]

\* The timer of an attempt once its fetch has settled with resp. The timer
\* that aborted the request has fired. callOpenRouter(config, ...) clears
\* the timer after the await of fetch, so a fetch that rejects leaves it
\* armed; makeRequest clears it in a finally block.
TimerAfter(client, resp) ==
    IF resp.kind = "abort" THEN "fired"
    ELSE IF client = "config" /\ resp.kind = "network" THEN "armed"
    ELSE "cleared"

\* The loop's bound, checked when the next pass is entered.
LoopGoesOn(client, attempt) ==
    IF client = "config" THEN attempt < maxRetries ELSE attempt <= maxAttempts

\* fetch settles (or the attempt's timer aborts it) and the pass runs to its
\* end: the call returns, throws, or starts its backoff sleep.
CallFetchSettles(resp, jitterAmount) ==
    /\ call.pc = "fetch"
    /\ jitterAmount \in JitterOf(call.client, call.attempt)
    /\ LET step == ClientAttempt(call.client, call.attempt, resp, jitterAmount)
           seen == [call EXCEPT !.history = Append(@, resp),
                                !.lastError = IF step.caught THEN step.error ELSE @,
                                !.timers[Len(call.timers)] =
                                    TimerAfter(call.client, resp)]
       IN  call' = IF step.next = "retry"
                   THEN [seen EXCEPT !.pc = "sleep",
                                     !.sleeps = Append(@, step.delay)]
                   ELSE [seen EXCEPT !.pc = "done", !.result = step]
    /\ UNCHANGED <<pipelineVars, review, norm, pr, backoff, par>>

\* The backoff sleep ends: the next pass of the loop sends the next request.
\* Past the loop's bound the call throws lastError.
CallSleepDone ==
    /\ call.pc = "sleep"
    /\ call' = IF LoopGoesOn(call.client, call.attempt + 1)
               THEN [call EXCEPT !.pc = "fetch", !.attempt = @ + 1,
                                 !.requests = @ + 1,
                                 !.timers = Append(@, "armed")]
               ELSE [call EXCEPT !.pc = "done", !.attempt = @ + 1,
                                 !.result = StepThrow(IF call.lastError = NoError
                                                      THEN RetriesFailedError
                                                      ELSE call.lastError)]
    /\ UNCHANGED <<pipelineVars, review, norm, pr, backoff, par>>


\* The timer of an earlier attempt, left armed, fires: it aborts the
\* controller of that attempt, whose fetch has already settled.
CallLateTimerFires(k) ==
    /\ k \in 1..Len(call.timers)
    /\ call.timers[k] = "armed"
    /\ ~(call.pc = "fetch" /\ k = Len(call.timers))
    /\ call' = [call EXCEPT !.timers[k] = "fired"]
    /\ UNCHANGED <<pipelineVars, review, norm, pr, backoff, par>>

(***************************************************************************)
(* runSingleScanner and runScanners                                        *)
(***************************************************************************)

NumScanners == 2

Scanners == 1..NumScanners

\* config.models / config.scannerModels
models == [i \in Scanners |-> "model" \o ToString(i)]

\* The entry points: run() is the GitHub Action, reviewPR() the CLI pipeline,
\* runFullReview() the exported scan + judge pipeline, and "runJudge" is
\* runScanners followed by the exported runJudge, without run()'s own check
\* of the scanner results before it.
Entries == {"run", "reviewPR", "runFullReview", "runJudge"}

\* run() and runJudge() call through callOpenRouter(config, ...); reviewPR()
\* and runFullReview() through the OpenRouterClient singleton.
ClientOf(e) == IF e \in {"run", "runJudge"} THEN "config" ELSE "withRetry"

PipelineResponses ==
    { HttpResponse(200, <<"finding">>), HttpResponse(200, <<"LGTM">>),
      HttpResponse(200, <<>>), HttpResponse(400, <<"Bad", "request">>),
      HttpResponse(503, <<"unavailable">>), AbortResponse }

\* What a scanner model may answer: the above, a text of white space only,
\* and a text with 'Looks good' in it.
ScannerResponses ==
    PipelineResponses
    \cup { HttpResponse(200, <<" ">>), HttpResponse(200, <<"nit:", "Looks good">>) }

\* A settled promise: fulfilled with value, or rejected with error.
Fulfilled(value) == [rejected |-> FALSE, value |-> value, error |-> NoError]

Rejected(error) == [rejected |-> TRUE, value |-> Undefined, error |-> error]

runSingleScannerReturnCaseSensitive(client, model, content, tokensUsed) ==
    Fulfilled([model |-> model, output |-> content, rawResponse |-> content,
               findings |-> <<>>, tokensUsed |-> tokensUsed, success |-> TRUE,
               status |-> IF trimIsEmpty(content) \/ includes(content, "lgtm")
                          THEN "SKIPPED" ELSE "OK",
               error |-> <<>>])

\* runSingleScanner(config, model, diff), past the await of callOpenRouter:
\* the try block's return.
runSingleScannerReturn(client, model, content, tokensUsed) ==
    IF client = "config"
    THEN LET isEmptyOrLgtm ==
                 \/ trimIsEmpty(content)
                 \/ includes(toLowerCase(content), "lgtm")
                 \/ includes(toLowerCase(content), "looks good")
         IN  Fulfilled([model |-> model, output |-> content,
                        tokensUsed |-> tokensUsed, success |-> TRUE,
                        status |-> IF isEmptyOrLgtm THEN "SKIPPED" ELSE "OK",
                        error |-> <<>>])
    ELSE Fulfilled([model |-> model, findings |-> <<>>, rawResponse |-> content,
                    tokensUsed |-> tokensUsed, success |-> TRUE, error |-> <<>>])

runSingleScannerRethrows(client, model, error) == Rejected(error)

\* A catch block that reports the failure with the fields of a success.
runSingleScannerCatchAsSuccess(client, model, error) ==
    Fulfilled([model |-> model, output |-> <<>>, tokensUsed |-> 0,
               success |-> TRUE, status |-> "FAILED", error |-> error.message])

\* The catch block's return.
runSingleScannerCatch(client, model, error) ==
    IF client = "config"
    THEN Fulfilled([model |-> model, output |-> <<>>, tokensUsed |-> 0,
                    success |-> FALSE, status |-> "FAILED",
                    error |-> error.message])
    ELSE Fulfilled([model |-> model, findings |-> <<>>, rawResponse |-> <<>>,
                    tokensUsed |-> 0, success |-> FALSE,
                    error |-> error.message])

runSingleScannerSettle(client, model, step) ==
    IF step.next = "return"
    THEN runSingleScannerReturn(client, model, step.content, step.tokensUsed)
    ELSE runSingleScannerCatch(client, model, step.error)

\* A promise that has not settled holds no outcome: reading success off it
\* gives undefined, which counts as false.
Unsettled ==
    [rejected |-> FALSE,
     value |-> [model |-> Null, success |-> FALSE, tokensUsed |-> 0, error |-> <<>>],
     error |-> NoError]

\* The diff texts and languages of a run.
RunInputs ==
    { [diff |-> "+x", language |-> "en"], [diff |-> "-y", language |-> "tr"],
      [diff |-> "", language |-> "en"] }

InputOff == [diff |-> "", language |-> "en"]

\* LANGUAGE_NAMES[language] ?? 'English'
LANGUAGE_NAMES ==
    [en |-> "English", tr |-> "Turkish", ja |-> "Japanese", de |-> "German",
     fr |-> "French", es |-> "Spanish", pt |-> "Portuguese", zh |-> "Chinese",
     ko |-> "Korean"]

langName(language) ==
    IF language \in DOMAIN LANGUAGE_NAMES THEN LANGUAGE_NAMES[language] ELSE "English"

\* buildScannerPrompt of review/prompts: the template with its two slots.
buildScannerPrompt(diff, language) ==
    "You are a senior software engineer performing a code review.\n"
    \o "Respond in " \o langName(language) \o "\n\nDiff:\n" \o diff

SCANNER_SYSTEM_PROMPT == "You are an expert code reviewer"

\* buildScannerSystemPrompt and buildScannerUserPrompt of scanner/prompts:
\* only their declarations are in the repository; each is a text made from
\* its one argument.
buildScannerSystemPrompt(language) == "buildScannerSystemPrompt(" \o language \o ")"

buildScannerUserPrompt(diff) == "buildScannerUserPrompt(" \o diff \o ")"

\* MODEL_REGISTRY[key].id
getModelId(key) == "openrouter/" \o key

Message(role, content) == [role |-> role, content |-> content]

ScannerRequestWithSiblings(client, model, diff, language) ==
    [model |-> model,
     messages |-> << Message("system", SCANNER_SYSTEM_PROMPT),
                     Message("user", buildScannerPrompt(diff, language)
                                       \o ToString(Len(order))) >>]

\* The request body of a scanner call: runSingleScanner's messages for
\* callOpenRouter(config.openrouter, model, messages, ...), or its prompt
\* and system prompt for OpenRouterClient.chat.
ScannerRequest(client, model, diff, language) ==
    IF client = "config"
    THEN [model |-> model,
          messages |-> << Message("system", buildScannerSystemPrompt(language)),
                          Message("user", buildScannerUserPrompt(diff)) >>]
    ELSE [model |-> getModelId(model),
          messages |-> << Message("system", SCANNER_SYSTEM_PROMPT),
                          Message("user", buildScannerPrompt(diff, language)) >>]

\* A scanner call that has not started. last is the latest response the call
\* got, sent the request bodies it has sent, one per attempt.
ScanIdle ==
    [pc |-> "idle", attempt |-> 0, promise |-> Unsettled, last |-> AbortResponse,
     sent |-> <<>>]

AllSettledAny(s) == \E i \in DOMAIN s : s[i].pc = "done"

\* Promise.all over promises that all fulfil: every one has settled.
AllSettled(s) == \A i \in DOMAIN s : s[i].pc = "done"

AnyRejected(s) == \E i \in DOMAIN s : s[i].pc = "done" /\ s[i].promise.rejected

\* allSettled(items, fn) of utils/concurrency: one TaskResult per item, in
\* item order.
allSettled(s) ==
    [i \in DOMAIN s |->
        IF s[i].promise.rejected
        THEN [index |-> i - 1, success |-> FALSE, result |-> Undefined,
              error |-> s[i].promise.error]
        ELSE [index |-> i - 1, success |-> TRUE, result |-> s[i].promise.value,
              error |-> NoError]]

IsTaskOk(r) == r.success /\ r.result # Undefined

IsTaskOkAndScannerOk(r) == r.success /\ r.result # Undefined /\ r.result.success

ExtractOnlySuccessful(results) ==
    LET kept == SelectSeq(results, IsTaskOkAndScannerOk)
    IN  [k \in 1..Len(kept) |-> kept[k].result]

\* results.filter((r) => r.success && r.result).map((r) => r.result)
ExtractResults(results) ==
    LET kept == SelectSeq(results, IsTaskOk)
    IN  [k \in 1..Len(kept) |-> kept[k].result]

\* What runScanners returns once its promises have settled.
runScannersResults(client, s) ==
    IF client = "config"
    THEN [i \in DOMAIN s |-> s[i].promise.value]
    ELSE ExtractResults(allSettled(s))

\* SECTION_HEADERS. A name in another script is written in Latin letters,
\* and the characters two names share are written the same way: "Juudai",
\* "Juuyou" and "Tei" stand for the characters that the header tests of
\* parseFindings look for.
SECTION_HEADERS ==
    [en |-> [summary |-> <<"Summary">>, critical |-> <<"Critical", "Findings">>,
             high |-> <<"Important", "Findings">>, low |-> <<"Low", "Priority">>,
             verdict |-> <<"Verdict">>],
     tr |-> [summary |-> <<"Ozet">>, critical |-> <<"Kritik", "Bulgular">>,
             high |-> <<"Onemli", "Bulgular">>, low |-> <<"Dusuk", "Oncelikli">>,
             verdict |-> <<"Sonuc">>],
     ja |-> [summary |-> <<"Gaiyou">>, critical |-> <<"JuudaiNaMondai">>,
             high |-> <<"JuuyouNaMondai">>, low |-> <<"TeiYuusendo">>,
             verdict |-> <<"Hantei">>],
     de |-> [summary |-> <<"Zusammenfassung">>, critical |-> <<"Kritische", "Befunde">>,
             high |-> <<"Wichtige", "Befunde">>, low |-> <<"Niedrige", "Prioritaet">>,
             verdict |-> <<"Urteil">>],
     fr |-> [summary |-> <<"Resume">>, critical |-> <<"Problemes", "Critiques">>,
             high |-> <<"Problemes", "Importants">>, low |-> <<"Priorite", "Basse">>,
             verdict |-> <<"Verdict">>],
     es |-> [summary |-> <<"Resumen">>, critical |-> <<"Hallazgos", "Criticos">>,
             high |-> <<"Hallazgos", "Importantes">>, low |-> <<"Prioridad", "Baja">>,
             verdict |-> <<"Veredicto">>],
     pt |-> [summary |-> <<"Resumo">>, critical |-> <<"Problemas", "Criticos">>,
             high |-> <<"Problemas", "Importantes">>, low |-> <<"Baixa", "Prioridade">>,
             verdict |-> <<"Veredito">>],
     zh |-> [summary |-> <<"Zhaiyao">>, critical |-> <<"YanzhongWenti">>,
             high |-> <<"JuuyouWenti">>, low |-> <<"TeiYouxianji">>,
             verdict |-> <<"Jielun">>],
     ko |-> [summary |-> <<"Yoyak">>, critical |-> <<"Simgakhan", "Munje">>,
             high |-> <<"Jungyohan", "Munje">>, low |-> <<"Najeun", "Useonsunwi">>,
             verdict |-> <<"Panjeong">>]]

getSectionHeaders(language) ==
    IF language \in DOMAIN SECTION_HEADERS
    THEN SECTION_HEADERS[language]
    ELSE SECTION_HEADERS["en"]

KeepAllResults(results) == results

successfulScanners(results) == SelectSeq(results, LAMBDA r : r.success)

\* buildJudgePrompt: the template with the language name, the section
\* headers of the language and the formatted reviews, one
\* '--- Review n (Model: m) ---' block per successful review.
buildJudgePrompt(reviews, language) ==
    LET ok == SelectSeq(reviews, LAMBDA r : r.success)
    IN  [template |-> "You are a code review judge.",
         langName |-> langName(language),
         headers |-> getSectionHeaders(language),
         formattedReviews |->
             [k \in 1..Len(ok) |->
                 [review |-> k, model |-> ok[k].model, text |-> ok[k].rawResponse]]]

JUDGE_SYSTEM_PROMPT == "You are a senior engineering lead"

\* buildJudgeSystemPrompt and buildJudgeUserPrompt of scanner/prompts: only
\* their declarations are in the repository.
buildJudgeSystemPrompt(language) == "buildJudgeSystemPrompt(" \o language \o ")"

buildJudgeUserPrompt(results) == [fn |-> "buildJudgeUserPrompt", scannerResults |-> results]

judgeModel == "judge"

\* The request body of the judge call: runJudge's messages, or
\* judgeReviews' prompt over the successful reviews.
JudgeRequest(client, results, language) ==
    IF client = "config"
    THEN [model |-> judgeModel,
          messages |-> << Message("system", buildJudgeSystemPrompt(language)),
                          Message("user", buildJudgeUserPrompt(results)) >>]
    ELSE [model |-> getModelId(judgeModel),
          messages |-> << Message("system", JUDGE_SYSTEM_PROMPT),
                          Message("user", buildJudgePrompt(successfulScanners(results),
                                                           language)) >>]

(***************************************************************************)
(* The pipeline: run(), reviewPR(), runFullReview()                        *)
(***************************************************************************)

JudgeIdle ==
    [pc |-> "idle", attempt |-> 0, requests |-> 0, step |-> Pending, sent |-> <<>>]

NoJudgeResult == [kind |-> "none"]

\* runJudge's JudgeResult.
JudgeResult(output, tokensUsed, success, error) ==
    [kind |-> "JudgeResult", output |-> output, tokensUsed |-> tokensUsed,
     success |-> success, error |-> error]

\* What judgeReviews hands back: a FinalReview, or the error it threw.
FinalReview(response, contributingModels) ==
    [kind |-> "FinalReview", response |-> response,
     contributingModels |-> contributingModels]

Thrown(error) == [kind |-> "thrown", error |-> error]

NoSuccessfulError ==
    [name |-> "Error",
     message |-> <<"No", "successful", "scanner", "results", "to", "judge">>]

Comment(kind, text) == [kind |-> kind, text |-> text]

RunCatchExitOnly(error) ==
    /\ posted' = posted
    /\ exit' = "failed"
    /\ pc' = "done"

\* The catch block of run(): it tries to post the error as a comment, ignores
\* a failure of that post, and exits with status 1.
RunCatch(error) ==
    /\ posted' = Append(posted, Comment("error", error.message))
    /\ exit' = "failed"
    /\ pc' = "done"

PostFailed == [name |-> "Error", message |-> <<"comment", "post", "failed">>]

DiffFailed == [name |-> "Error", message |-> <<"diff", "fetch", "failed">>]

\* normalizeDiff settles: with a diff, with an empty diff, or by throwing.
\* run() answers an empty diff with a comment and returns; reviewPR() goes on
\* with whatever diff it got; main() exits with status 1 on any error.
\* run() without the test of diff.combinedDiff.length: an empty diff goes on
\* to the scanners.
NormalizeDiffSettlesNoEmptyBranch(outcome, postOk) ==
    /\ pc = "start"
    /\ outcome = "diff" => input.diff # ""
    /\ outcome = "empty" => input.diff = ""
    /\ IF outcome = "throws"
       THEN IF entry = "run"
            THEN RunCatch(DiffFailed)
            ELSE /\ exit' = "failed"
                 /\ pc' = "done"
                 /\ UNCHANGED posted
       ELSE /\ pc' = "diffReady"
            /\ UNCHANGED <<posted, exit>>
    /\ UNCHANGED <<input, entry, scan, order, scannerResults, judge, judgeResult,
                   call, review, norm, pr, backoff, par>>

NormalizeDiffSettles(outcome, postOk) ==
    /\ pc = "start"
    /\ outcome = "diff" => input.diff # ""
    /\ outcome = "empty" => input.diff = ""
    /\ IF outcome = "throws"
       THEN IF entry = "run"
            THEN RunCatch(DiffFailed)
            ELSE /\ exit' = "failed"
                 /\ pc' = "done"
                 /\ UNCHANGED posted
       ELSE IF outcome = "empty" /\ entry = "run"
       THEN IF postOk
            THEN /\ posted' = Append(posted, Comment("no-changes", <<>>))
                 /\ exit' = "ok"
                 /\ pc' = "done"
            ELSE /\ posted' = Append(Append(posted, Comment("no-changes", <<>>)),
                                     Comment("error", PostFailed.message))
                 /\ exit' = "failed"
                 /\ pc' = "done"
       ELSE /\ pc' = "diffReady"
            /\ UNCHANGED <<posted, exit>>
    /\ UNCHANGED <<input, entry, scan, order, scannerResults, judge, judgeResult,
                   call, review, norm, pr, backoff, par>>

\* runScanners maps runSingleScanner over the models: every call runs up to
\* its first await, so every model's first request is sent before any
\* response is handled.
RunScannersStart ==
    /\ pc = "diffReady"
    /\ pc' = "scanning"
    /\ scan' = [i \in Scanners |->
                   [pc |-> "fetch", attempt |-> FirstAttempt(ClientOf(entry)),
                    promise |-> Unsettled, last |-> AbortResponse,
                    sent |-> << ScannerRequest(ClientOf(entry), models[i],
                                               input.diff, input.language) >>]]
    /\ UNCHANGED <<input, entry, order, scannerResults, judge, judgeResult, posted,
                   exit, call, review, norm, pr, backoff, par>>

\* The request of scanner i settles and its pass of the retry loop runs:
\* the call sleeps before a retry, or runSingleScanner returns its outcome.
ScannerFetchSettles(i, resp, jitterAmount) ==
    /\ scan[i].pc = "fetch"
    /\ jitterAmount \in JitterOf(ClientOf(entry), scan[i].attempt)
    /\ LET client == ClientOf(entry)
           step == ClientAttempt(client, scan[i].attempt, resp, jitterAmount)
       IN  IF step.next = "retry"
           THEN /\ scan' = [scan EXCEPT ![i].pc = "sleep", ![i].last = resp]
                /\ UNCHANGED order
           ELSE /\ scan' = [scan EXCEPT
                       ![i].pc = "done",
                       ![i].last = resp,
                       ![i].promise = runSingleScannerSettle(client, models[i], step)]
                /\ order' = Append(order, i)
    /\ UNCHANGED <<input, entry, pc, scannerResults, judge, judgeResult, posted, exit,
                   call, review, norm, pr, backoff, par>>

ScannerSleepDoneInTurn(i) ==
    /\ scan[i].pc = "sleep"
    /\ \A j \in Scanners : j < i => scan[j].pc # "sleep"
    /\ scan' = [scan EXCEPT ![i].pc = "fetch", ![i].attempt = @ + 1,
                            ![i].sent =
                                Append(@, ScannerRequest(ClientOf(entry), models[i],
                                                         input.diff, input.language))]
    /\ UNCHANGED <<input, entry, pc, order, scannerResults, judge, judgeResult, posted,
                   exit, call, review, norm, pr, backoff, par>>

\* The backoff sleep of scanner i ends and its next request is sent.
ScannerSleepDone(i) ==
    /\ scan[i].pc = "sleep"
    /\ scan' = [scan EXCEPT ![i].pc = "fetch", ![i].attempt = @ + 1,
                            ![i].sent =
                                Append(@, ScannerRequest(ClientOf(entry), models[i],
                                                         input.diff, input.language))]
    /\ UNCHANGED <<input, entry, pc, order, scannerResults, judge, judgeResult, posted,
                   exit, call, review, norm, pr, backoff, par>>

\* The await of runScanners' Promise.all ends. Promise.all rejects as soon as
\* one of its promises rejects; run() catches that, the other entry points
\* fail with it.
RunScannersReturn ==
    /\ pc = "scanning"
    /\ IF ClientOf(entry) = "config" /\ AnyRejected(scan)
       THEN /\ UNCHANGED scannerResults
            /\ IF entry = "run"
               THEN RunCatch(CHOOSE e \in { scan[i].promise.error :
                                 i \in { j \in Scanners : scan[j].pc = "done"
                                           /\ scan[j].promise.rejected } } : TRUE)
               ELSE /\ exit' = "failed"
                    /\ pc' = "done"
                    /\ UNCHANGED posted
       ELSE /\ AllSettled(scan)
            /\ scannerResults' = runScannersResults(ClientOf(entry), scan)
            /\ pc' = "scanned"
            /\ UNCHANGED <<posted, exit>>
    /\ UNCHANGED <<input, entry, scan, order, judge, judgeResult, call, review, norm, pr, backoff, par>>

\* judgeReviews' check of its input, before any request: the error it
\* throws, or NoJudgeResult when it goes on to call the judge model.
judgeReviewsPrecheckMissing(results) == NoJudgeResult

judgeReviewsPrecheck(results) ==
    IF Len(successfulScanners(results)) = 0
    THEN Thrown(NoSuccessfulError)
    ELSE NoJudgeResult

\* runJudge's check of its input, before any request.
runJudgePrecheck(results) ==
    IF Len(successfulScanners(results)) = 0
    THEN JudgeResult(<<"Review", "could", "not", "be", "completed">>, 0, FALSE,
                     <<"No", "successful", "scanner", "results">>)
    ELSE NoJudgeResult

\* The judge step is entered with the array runScanners returned. run()
\* itself returns, with a comment, when no scanner was successful.
JudgeStart(postOk) ==
    /\ pc = "scanned"
    /\ LET pre == IF ClientOf(entry) = "config"
                  THEN runJudgePrecheck(scannerResults)
                  ELSE judgeReviewsPrecheck(scannerResults)
       IN  IF entry = "run" /\ Len(successfulScanners(scannerResults)) = 0
           THEN /\ UNCHANGED <<judge, judgeResult>>
                /\ IF postOk
                   THEN /\ posted' = Append(posted, Comment("all-scanners-failed", <<>>))
                        /\ exit' = "ok"
                        /\ pc' = "done"
                   ELSE /\ posted' = Append(
                               Append(posted, Comment("all-scanners-failed", <<>>)),
                               Comment("error", PostFailed.message))
                        /\ exit' = "failed"
                        /\ pc' = "done"
           ELSE IF pre # NoJudgeResult
           THEN /\ judgeResult' = pre
                /\ pc' = "judged"
                /\ UNCHANGED <<judge, posted, exit>>
           ELSE /\ judge' = [pc |-> "fetch",
                             attempt |-> FirstAttempt(ClientOf(entry)),
                             requests |-> 1, step |-> Pending,
                             sent |-> << JudgeRequest(ClientOf(entry), scannerResults,
                                                      input.language) >>]
                /\ pc' = "judging"
                /\ UNCHANGED <<judgeResult, posted, exit>>
    /\ UNCHANGED <<input, entry, scan, order, scannerResults, call, review, norm, pr, backoff, par>>

contributingModels(results) ==
    LET ok == successfulScanners(results)
    IN  [k \in 1..Len(ok) |-> ok[k].model]

\* What the judge step makes of the end of the judge call.
JudgeOutcome(client, step, results) ==
    IF client = "config"
    THEN IF step.next = "return"
         THEN JudgeResult(step.content, step.tokensUsed, TRUE, <<>>)
         ELSE JudgeResult(<<"Review", "aggregation", "failed:">> \o step.error.message,
                          0, FALSE, step.error.message)
    ELSE IF step.next = "return"
         THEN FinalReview(step.content, contributingModels(results))
         ELSE Thrown(step.error)

\* The judge request settles and its pass of the retry loop runs.
JudgeFetchSettles(resp, jitterAmount) ==
    /\ pc = "judging"
    /\ judge.pc = "fetch"
    /\ jitterAmount \in JitterOf(ClientOf(entry), judge.attempt)
    /\ LET client == ClientOf(entry)
           step == ClientAttempt(client, judge.attempt, resp, jitterAmount)
       IN  IF step.next = "retry"
           THEN /\ judge' = [judge EXCEPT !.pc = "sleep"]
                /\ UNCHANGED <<pc, judgeResult>>
           ELSE /\ judge' = [judge EXCEPT !.pc = "done", !.step = step]
                /\ judgeResult' = JudgeOutcome(client, step, scannerResults)
                /\ pc' = "judged"
    /\ UNCHANGED <<input, entry, scan, order, scannerResults, posted, exit, call,
                   review, norm, pr, backoff, par>>

\* The backoff sleep of the judge call ends and its next request is sent.
JudgeSleepDone ==
    /\ pc = "judging"
    /\ judge.pc = "sleep"
    /\ judge' = [judge EXCEPT !.pc = "fetch", !.attempt = @ + 1,
                              !.requests = @ + 1,
                              !.sent = Append(@, JudgeRequest(ClientOf(entry),
                                                  scannerResults, input.language))]
    /\ UNCHANGED <<input, entry, pc, scan, order, scannerResults, judgeResult, posted,
                   exit, call, review, norm, pr, backoff, par>>

\* The rest of the entry point, once the judge step is over. run() posts
\* judgeResult.output whatever judgeResult.success is; reviewPR() posts the
\* FinalReview; an error thrown by the judge step or by the post ends
\* reviewPR() and runFullReview() in failure.
Finish(postOk) ==
    /\ pc = "judged"
    /\ CASE entry = "run" ->
              IF postOk
              THEN /\ posted' = Append(posted, Comment("review", judgeResult.output))
                   /\ exit' = "ok"
              ELSE /\ posted' = Append(
                          Append(posted, Comment("review", judgeResult.output)),
                          Comment("error", PostFailed.message))
                   /\ exit' = "failed"
         [] entry = "runJudge" ->
              /\ exit' = "ok"
              /\ UNCHANGED posted
         [] entry = "reviewPR" ->
              IF judgeResult.kind = "thrown"
              THEN /\ exit' = "failed"
                   /\ UNCHANGED posted
              ELSE /\ posted' = Append(posted, Comment("review", judgeResult.response))
                   /\ exit' = IF postOk THEN "ok" ELSE "failed"
         [] entry = "runFullReview" ->
              /\ exit' = IF judgeResult.kind = "thrown" THEN "failed" ELSE "ok"
              /\ UNCHANGED posted
    /\ pc' = "done"
    /\ UNCHANGED <<input, entry, scan, order, scannerResults, judge, judgeResult, call,
                   review, norm, pr, backoff, par>>

(***************************************************************************)
(* The judge response parser of judgeReviews                               *)
(*                                                                         *)
(* A judge response is a sequence of lines (judgeResponse.split('\n')), a  *)
(* line a sequence of tokens joined by single spaces. Tokens are ASCII: a  *)
(* word of another script is written by its transliteration.               *)
(***************************************************************************)

\* line.includes(phrase): the phrase's words in a row; one word may also sit
\* inside a longer token.
lineIncludes(line, phrase) ==
    \E i \in 1..(Len(line) - Len(phrase) + 1) :
        \A k \in 1..Len(phrase) :
            IF Len(phrase) = 1
            THEN TokenHas(line[i], phrase[1])
            ELSE line[i + k - 1] = phrase[k]

lineIncludesAny(line, phrases) == \E ph \in phrases : lineIncludes(line, ph)

\* The characters of a line: its tokens and the spaces between them.
RECURSIVE TextLength(_)
TextLength(tokens) ==
    IF tokens = <<>> THEN 0
    ELSE Len(Head(tokens)) + (IF Len(tokens) > 1 THEN 1 ELSE 0) + TextLength(Tail(tokens))

BulletMarkers == {"-", "*", "(bullet)"}

\* line.match(/^[-*(bullet)]\s*(.+)/)
IsBulletLine(line) == Len(line) >= 2 /\ line[1] \in BulletMarkers

\* The severity a section header line switches to, or "none".
HeaderSeverity(line, headers) ==
    IF lineIncludesAny(line, {headers.critical, <<"Critical">>, <<"Kritik">>, <<"Juudai">>})
    THEN "critical"
    ELSE IF lineIncludesAny(line, {headers.high, <<"Important">>, <<"High">>,
                                   <<"Onemli">>, <<"Juuyou">>})
    THEN "high"
    ELSE IF lineIncludesAny(line, {<<"Medium">>, <<"Orta">>, <<"Chuutou">>})
    THEN "medium"
    ELSE IF lineIncludesAny(line, {headers.low, <<"Low">>, <<"Dusuk">>, <<"Tei">>})
    THEN "low"
    ELSE "none"

\* The loop of parseFindings from line i on, with the findings so far.
RECURSIVE parseFindingsFrom(_, _, _, _, _)
parseFindingsFrom(lines, i, headers, currentSeverity, findings) ==
    IF i > Len(lines) THEN findings
    ELSE LET line == lines[i]
             sev == HeaderSeverity(line, headers)
         IN  IF sev # "none"
             THEN parseFindingsFrom(lines, i + 1, headers, sev, findings)
             ELSE IF IsBulletLine(line) /\ TextLength(Tail(line)) > 10
             THEN parseFindingsFrom(lines, i + 1, headers, currentSeverity,
                      Append(findings,
                             [id |-> Len(findings), severity |-> currentSeverity,
                              category |-> "bug", description |-> Tail(line)]))
             ELSE parseFindingsFrom(lines, i + 1, headers, currentSeverity, findings)

parseFindings(judgeResponse, language) ==
    parseFindingsFrom(judgeResponse, 1, getSectionHeaders(language), "info", <<>>)

HashTokens == {"##", "###"}

\* The line ends in '##' and the header name, compared without case.
IsHeaderLine(line, name) ==
    /\ Len(line) > Len(name)
    /\ line[Len(line) - Len(name)] \in HashTokens
    /\ \A k \in 1..Len(name) :
          ToLowerToken(line[Len(line) - Len(name) + k]) = ToLowerToken(name[k])

StartsSection(line) == line # <<>> /\ TokenHas(line[1], "##")

IsBlank(line) == line = <<>>

\* The text captured by /##\s*name\s*\n([\s\S]*?)(?=\n##|$)/i at its first
\* match. The header line is the first that ends in the name and has a line
\* after it; the greedy \s* takes the blank lines that follow, so the
\* capture starts at the first line that is not blank, whatever it is, and
\* ends before the next line after it that starts with '##'. <<>> when there
\* is no match or the capture is empty.
SectionBlock(lines, name) ==
    LET hs == { i \in 1..(Len(lines) - 1) : IsHeaderLine(lines[i], name) }
    IN  IF hs = {} THEN <<>>
        ELSE LET h == CHOOSE i \in hs : \A j \in hs : i <= j
                 texts == { j \in (h + 1)..Len(lines) : ~IsBlank(lines[j]) }
             IN  IF texts = {} THEN <<>>
                 ELSE LET first == CHOOSE j \in texts : \A m \in texts : j <= m
                          ends == { j \in (first + 1)..Len(lines) :
                                        StartsSection(lines[j]) }
                          last == IF ends = {} THEN Len(lines)
                                  ELSE (CHOOSE j \in ends : \A m \in ends : j <= m) - 1
                      IN  SubSeq(lines, first, last)

\* String.prototype.trim on a text that starts with a line that is not
\* blank: the blank lines at its end go.
RECURSIVE trimEnd(_)
trimEnd(lines) ==
    IF lines = <<>> THEN <<>>
    ELSE IF IsBlank(lines[Len(lines)]) THEN trimEnd(SubSeq(lines, 1, Len(lines) - 1))
    ELSE lines

\* The first pattern, in the order given, that captures a text.
RECURSIVE FirstSection(_, _)
FirstSection(lines, names) ==
    IF names = <<>> THEN <<>>
    ELSE IF SectionBlock(lines, Head(names)) # <<>>
    THEN SectionBlock(lines, Head(names))
    ELSE FirstSection(lines, Tail(names))

\* The keywords of parseVerdict, in the order they are tested.
VerdictKeywords ==
    << <<"approve", "approve">>, <<"request_changes", "request-changes">>,
       <<"request changes", "request-changes">>,
       <<"changes requested", "request-changes">>,
       <<"onay", "approve">>, <<"degisiklik", "request-changes">>,
       <<"shounin", "approve">>, <<"henkou", "request-changes">>,
       <<"genehmigt", "approve">>, <<"aenderungen", "request-changes">>,
       <<"approuve", "approve">>, <<"modifications", "request-changes">>,
       <<"aprobado", "approve">>, <<"cambios", "request-changes">>,
       <<"aprovado", "approve">>, <<"alteracoes", "request-changes">>,
       <<"pizhun", "approve">>, <<"genggai", "request-changes">>,
       <<"seungin", "approve">>, <<"byeongyeong", "request-changes">> >>

textIncludes(lines, kw) ==
    \E i \in 1..Len(lines) : includes(toLowerCase(lines[i]), kw)

RECURSIVE parseVerdictFrom(_, _)
parseVerdictFrom(lines, k) ==
    IF k > Len(VerdictKeywords) THEN "comment"
    ELSE IF textIncludes(lines, VerdictKeywords[k][1]) THEN VerdictKeywords[k][2]
    ELSE parseVerdictFrom(lines, k + 1)

parseVerdict(lines) == parseVerdictFrom(lines, 1)

\* extractVerdict: the verdict section under the configured or any other
\* header name, else the whole response.
extractVerdict(judgeResponse, language) ==
    LET names == << getSectionHeaders(language).verdict, <<"Verdict">>, <<"Sonuc">>,
                    <<"Hantei">>, <<"Urteil">>, <<"Verdict">>, <<"Veredicto">>,
                    <<"Veredito">>, <<"Jielun">>, <<"Panjeong">> >>
        block == FirstSection(judgeResponse, names)
    IN  IF block # <<>> THEN parseVerdict(block) ELSE parseVerdict(judgeResponse)

\* judgeResponse.split('\n\n'): two line ends in a row are an empty line
\* that is neither the first nor the last of the text; the text is cut at the
\* first one and the rest, from the line after it, is split the same way.
RECURSIVE splitParagraphs(_)
splitParagraphs(lines) ==
    LET cuts == { i \in 2..(Len(lines) - 1) : IsBlank(lines[i]) }
    IN  IF cuts = {} THEN <<lines>>
        ELSE LET i == CHOOSE c \in cuts : \A d \in cuts : c <= d
             IN  <<SubSeq(lines, 1, i - 1)>>
                 \o splitParagraphs(SubSeq(lines, i + 1, Len(lines)))

\* p.trim() is not the empty string.
HasText(paragraph) == \E k \in 1..Len(paragraph) : ~IsBlank(paragraph[k])

\* paragraphs[0] of the paragraphs that have text, as it stands in the
\* response; <<>> when there is none.
FirstParagraph(lines) ==
    LET paragraphs == splitParagraphs(lines)
        kept == { k \in 1..Len(paragraphs) : HasText(paragraphs[k]) }
    IN  IF kept = {} THEN <<>>
        ELSE paragraphs[CHOOSE k \in kept : \A m \in kept : k <= m]

\* extractSummary: the summary section under the configured or any other
\* header name, else the first non-empty paragraph (its cut to 500
\* characters never applies to the texts modelled), else the default.
extractSummary(judgeResponse, language) ==
    LET names == << getSectionHeaders(language).summary, <<"Summary">>, <<"Ozet">>,
                    <<"Gaiyou">>, <<"Zusammenfassung">>, <<"Resume">>, <<"Resumen">>,
                    <<"Resumo">>, <<"Zhaiyao">>, <<"Yoyak">> >>
        block == FirstSection(judgeResponse, names)
    IN  IF block # <<>> THEN trimEnd(block)
        ELSE IF FirstParagraph(judgeResponse) # <<>> THEN FirstParagraph(judgeResponse)
        ELSE << <<"Review", "completed.">> >>

CountSeverity(findings, sev) ==
    Cardinality({ k \in 1..Len(findings) : findings[k].severity = sev })

countBySeverityMediumAsHigh(findings) ==
    [critical |-> CountSeverity(findings, "critical"),
     high |-> CountSeverity(findings, "high") + CountSeverity(findings, "medium"),
     medium |-> CountSeverity(findings, "medium"),
     low |-> CountSeverity(findings, "low"),
     info |-> CountSeverity(findings, "info")]

countBySeverity(findings) ==
    [critical |-> CountSeverity(findings, "critical"),
     high |-> CountSeverity(findings, "high"),
     medium |-> CountSeverity(findings, "medium"),
     low |-> CountSeverity(findings, "low"),
     info |-> CountSeverity(findings, "info")]

finalVerdictHighFromTwo(verdict, stats, findings) ==
    IF stats.critical > 0 THEN "request-changes"
    ELSE IF stats.high >= 2 THEN "request-changes"
    ELSE IF Len(findings) = 0 THEN "approve"
    ELSE verdict

finalVerdictKeepsParsed(verdict, stats, findings) ==
    IF stats.critical > 0 THEN "request-changes"
    ELSE IF stats.high > 2 THEN "request-changes"
    ELSE verdict

\* 'Auto-determine verdict based on findings'
finalVerdict(verdict, stats, findings) ==
    IF stats.critical > 0 THEN "request-changes"
    ELSE IF stats.high > 2 THEN "request-changes"
    ELSE IF Len(findings) = 0 THEN "approve"
    ELSE verdict

\* judgeReviews from the judge response on: the FinalReview it returns
\* (contributingModels, judgeModel and estimatedCost do not come from the
\* response).
judgeReviewsParse(judgeResponse, language) ==
    LET findings == parseFindings(judgeResponse, language)
        summary == extractSummary(judgeResponse, language)
        verdict == extractVerdict(judgeResponse, language)
        stats == countBySeverity(findings)
    IN  [findings |-> findings, summary |-> summary,
         verdict |-> finalVerdict(verdict, stats, findings), stats |-> stats]

MaxLines == 5

JudgeLines ==
    { <<"##", "Critical", "Findings">>, <<"##", "Important", "Findings">>,
      <<"##", "Kritische", "Befunde">>, <<"-", "SQL", "injection", "risk">>,
      <<"-", "typo">>, <<"##", "Verdict">>, <<"APPROVE">>, <<"REQUEST_CHANGES">>,
      <<"-", "Critical", "race", "condition">> }

JudgeResponses == UNION { [1..n -> JudgeLines] : n \in 0..MaxLines }

\* Prose in paragraphs: no header, no bullet, no verdict word.
ProseLines == { <<"Nothing", "to", "report.">>, <<"All", "fine.">>, <<>> }

ProseResponses == UNION { [1..n -> ProseLines] : n \in 0..MaxLines }

\* Findings under the headers of all the severities.
SeverityLines ==
    { <<"##", "Critical", "Findings">>, <<"##", "Medium">>, <<"##", "Low", "Priority">>,
      <<"-", "SQL", "injection", "risk">> }

SeverityResponses == UNION { [1..n -> SeverityLines] : n \in 0..MaxLines }

ReviewLanguages == {"en", "de"}

NoReview == [findings |-> <<>>, summary |-> <<>>, verdict |-> Null, stats |-> Null]

\* What a composed response was made from; nothing for any other response.
NoInjection == [summary |-> <<>>, critical |-> <<>>, high |-> <<>>, low |-> <<>>,
                verdict |-> Null]

ReviewOff ==
    [stage |-> "off", language |-> "en", response |-> <<>>, final |-> NoReview,
     injected |-> NoInjection]

\* The judge model has answered: judgeReviews parses the response and
\* returns the FinalReview.
JudgeReviewsParse ==
    /\ review.stage = "response"
    /\ review' = [review EXCEPT
                     !.stage = "returned",
                     !.final = judgeReviewsParse(review.response, review.language)]
    /\ UNCHANGED <<pipelineVars, call, norm, pr, backoff, par>>

\* A response in the format the judge prompt asks for: the five sections
\* under the headers of the language, the findings as bullets, the verdict
\* as one of the three words.
VerdictWord(verdict) ==
    CASE verdict = "approve" -> "APPROVE"
      [] verdict = "request-changes" -> "REQUEST_CHANGES"
      [] OTHER -> "COMMENT"

Bullets(texts) == [k \in 1..Len(texts) |-> <<"-">> \o texts[k]]

Section(name, body) == << <<"##">> \o name >> \o body \o << <<>> >>

ComposeResponse(language, inj) ==
    LET h == getSectionHeaders(language)
    IN  Section(h.summary, <<inj.summary>>)
        \o Section(h.critical, Bullets(inj.critical))
        \o Section(h.high, Bullets(inj.high))
        \o Section(h.low, Bullets(inj.low))
        \o << <<"##">> \o h.verdict, <<VerdictWord(inj.verdict)>> >>

MaxPerSection == 2

OutputLanguages == {"en", "tr", "ja", "de", "fr", "es", "pt", "zh", "ko"}

FindingTexts == { <<"SQL", "injection", "risk">>, <<"Critical", "race", "condition">> }

FindingLists == UNION { [1..n -> FindingTexts] : n \in 0..MaxPerSection }

Verdicts == {"approve", "request-changes", "comment"}

Injections ==
    [summary : { <<"Two", "issues", "found.">> }, critical : FindingLists,
     high : FindingLists, low : FindingLists, verdict : Verdicts]

\* The three parsers of judgeReviews, applied to a composed response.
ParseBack ==
    /\ review.stage = "composed"
    /\ LET findings == parseFindings(review.response, review.language)
       IN  review' = [review EXCEPT
                         !.stage = "parsed",
                         !.final = [findings |-> findings,
                                    summary |-> extractSummary(review.response,
                                                               review.language),
                                    verdict |-> extractVerdict(review.response,
                                                               review.language),
                                    stats |-> countBySeverity(findings)]]
    /\ UNCHANGED <<pipelineVars, call, norm, pr, backoff, par>>

(***************************************************************************)
(* The diff module: buildCombinedDiff and normalizeDiff                    *)
(*                                                                         *)
(* Texts are strings; an index is 0-based as in the code. A patch that is  *)
(* absent and a patch that is '' are both falsy: both are "".              *)
(***************************************************************************)

sliceInclusive(text, from, to) == SubSeq(text, from + 1, Min(to + 1, Len(text)))

slice(text, from, to) == SubSeq(text, from + 1, Min(to, Len(text)))

FileDiff(filename, status, additions, deletions, patch, previousFilename) ==
    [filename |-> filename, status |-> status, additions |-> additions,
     deletions |-> deletions, patch |-> patch, previousFilename |-> previousFilename]

\* files.filter((f) => f.patch)
KeepAllFiles(files) == files

WithPatch(files) == SelectSeq(files, LAMBDA f : f.patch # "")

\* One element of the map in buildCombinedDiff.
FileSection(f) ==
    LET header == "diff --git a/" \o f.filename \o " b/" \o f.filename
        status == IF f.status = "added" THEN "new file"
                  ELSE IF f.status = "removed" THEN "deleted file"
                  ELSE IF f.status = "renamed" THEN "renamed from " \o f.previousFilename
                  ELSE "modified"
    IN  header \o "\n--- " \o status \o " ---\n" \o f.patch

RECURSIVE join(_, _)
join(texts, sep) ==
    IF texts = <<>> THEN ""
    ELSE IF Len(texts) = 1 THEN texts[1]
    ELSE texts[1] \o sep \o join(Tail(texts), sep)

buildCombinedDiff(files) ==
    LET patched == WithPatch(files)
    IN  join([k \in 1..Len(patched) |-> FileSection(patched[k])], "\n\n")

Change(f) == f.additions + f.deletions

\* Array.prototype.sort with (a, b) => change(b) - change(a): stable, so an
\* element goes after every element that does not have a smaller change.
RECURSIVE InsertByChange(_, _)
InsertByChange(sorted, f) ==
    IF sorted = <<>> THEN <<f>>
    ELSE IF Change(Head(sorted)) >= Change(f)
    THEN <<Head(sorted)>> \o InsertByChange(Tail(sorted), f)
    ELSE <<f>> \o sorted

RECURSIVE sortByChange(_)
sortByChange(files) ==
    IF files = <<>> THEN <<>>
    ELSE InsertByChange(sortByChange(SubSeq(files, 1, Len(files) - 1)), files[Len(files)])

\* 'Step 1: Limit number of files'
limitFiles(allFiles, maxFiles) ==
    IF Len(allFiles) > maxFiles
    THEN SubSeq(sortByChange(WithPatch(allFiles)), 1,
                Min(maxFiles, Len(WithPatch(allFiles))))
    ELSE allFiles

Occurrences(text, marker) ==
    { i \in 0..(Len(text) - Len(marker)) : slice(text, i, i + Len(marker)) = marker }

indexOf(text, marker) ==
    IF Occurrences(text, marker) = {} THEN -1
    ELSE CHOOSE i \in Occurrences(text, marker) : \A j \in Occurrences(text, marker) : i <= j

lastIndexOf(text, marker) ==
    IF Occurrences(text, marker) = {} THEN -1
    ELSE CHOOSE i \in Occurrences(text, marker) : \A j \in Occurrences(text, marker) : i >= j

DiffMarker == "\ndiff --git"

truncateCharsMarked(combinedDiff, maxChars) ==
    slice(combinedDiff, 0, maxChars) \o "\n[truncated]"

\* The cut of a combined diff that is longer than maxChars: the first
\* maxChars characters, or up to the last file boundary in them when that
\* lies beyond maxChars * 0.5.
truncateChars(combinedDiff, maxChars) ==
    LET cut == slice(combinedDiff, 0, maxChars)
        lastDiffMarker == lastIndexOf(cut, DiffMarker)
    IN  IF 2 * lastDiffMarker > maxChars
        THEN slice(cut, 0, lastDiffMarker)
        ELSE cut

joinReasonsCharOnly(fileReason, charReason) == charReason

\* truncationReason ? `${truncationReason}; ${charReason}` : charReason
joinReasons(fileReason, charReason) ==
    IF fileReason # Null THEN fileReason \o "; " \o charReason ELSE charReason

\* The NormalizedDiff returned for the fetched files (headSha, which is
\* passed through from the pull request, is left out).
normalizeDiff(allFiles, maxFiles, maxChars) ==
    LET filesFound == Len(allFiles)
        files == limitFiles(allFiles, maxFiles)
        fileReason == IF Len(allFiles) > maxFiles
                      THEN "Limited to " \o ToString(maxFiles) \o " files (found "
                               \o ToString(filesFound) \o ")"
                      ELSE Null
        original == buildCombinedDiff(files)
        originalChars == Len(original)
        combinedDiff == IF originalChars > maxChars
                        THEN truncateChars(original, maxChars)
                        ELSE original
        charReason == "Truncated to " \o ToString(maxChars) \o " chars (original "
                          \o ToString(originalChars) \o ")"
        truncationReason == IF originalChars > maxChars
                            THEN joinReasons(fileReason, charReason)
                            ELSE fileReason
    IN  [files |-> files,
         combinedDiff |-> combinedDiff,
         truncation |-> [filesFound |-> filesFound,
                         filesReviewed |-> Len(files),
                         originalChars |-> originalChars,
                         truncatedChars |-> Len(combinedDiff),
                         wasTruncated |-> truncationReason # Null,
                         truncationReason |-> truncationReason]]

MaxFileCount == 3
MaxChars == 100

\* Files as the pull request API lists them: a patch is the text of the
\* file's hunks, and a file without one (binary, too large) has none.
FetchedFiles ==
    { FileDiff("a", "modified", 1, 0, "+x", ""),
      FileDiff("b", "added", 2, 0, "+y\n+z", ""),
      FileDiff("c", "removed", 0, 3, "", ""),
      FileDiff("d", "renamed", 1, 0, "+w", "e") }

FileLists == UNION { [1..n -> FetchedFiles] : n \in 0..MaxFileCount }

NoDiff ==
    [files |-> <<>>, combinedDiff |-> "",
     truncation |-> [filesFound |-> 0, filesReviewed |-> 0, originalChars |-> 0,
                     truncatedChars |-> 0, wasTruncated |-> FALSE,
                     truncationReason |-> Null]]

NormOff == [stage |-> "off", allFiles |-> <<>>, maxFiles |-> 1, maxChars |-> 1,
            result |-> NoDiff]

\* getPRHeadSha and getPRFiles have both answered: normalizeDiff limits the
\* files, builds and cuts the combined diff and returns.
NormalizeDiffReturns ==
    /\ norm.stage = "fetched"
    /\ norm' = [norm EXCEPT
                   !.stage = "returned",
                   !.result = normalizeDiff(norm.allFiles, norm.maxFiles, norm.maxChars)]
    /\ UNCHANGED <<pipelineVars, call, review, pr, backoff, par>>

(***************************************************************************)
(* parallel and allSettled of utils/concurrency                            *)
(*                                                                         *)
(* fn(item, index) returns a promise that settles at a moment of its own.  *)
(* Indexes are those of the code (from 0); position index + 1 of a         *)
(* sequence holds what the array holds at index. durationMs is left out.   *)
(***************************************************************************)

MaxItems == 3

MaxConcurrency == 3

DEFAULT_POOL_OPTIONS == [concurrency |-> 4, stopOnError |-> FALSE]

\* { ...DEFAULT_POOL_OPTIONS, ...options }
mergeOptions(options) ==
    [k \in DOMAIN DEFAULT_POOL_OPTIONS |->
        IF k \in DOMAIN options THEN options[k] ELSE DEFAULT_POOL_OPTIONS[k]]

\* The options a caller passes: with or without a concurrency.
PoolOptions ==
    { [concurrency |-> c, stopOnError |-> e] : c \in 1..MaxConcurrency, e \in BOOLEAN }
        \cup { [stopOnError |-> e] : e \in BOOLEAN }

Item(i) == [name |-> "item" \o ToString(i)]

\* The arrays of items: an element is a value or undefined.
ItemLists ==
    UNION { [1..n -> {Item(1), Item(2), Undefined}] : n \in 0..MaxItems }

\* How the promise of fn settles: fulfilled, rejected with an Error, or
\* rejected with a value that is not an Error.
FnOutcomes == {"fulfil", "rejectError", "rejectValue"}

fnResult(item, index) == [of |-> item, index |-> index]

fnThrown(outcome, index) ==
    [kind |-> IF outcome = "rejectError" THEN "Error" ELSE "string",
     message |-> <<"task", ToString(index), "failed">>]

NoThrown == [kind |-> Null, message |-> <<>>]

\* error instanceof Error ? error : new Error(String(error))
toError(error) == [kind |-> "Error", message |-> error.message]

\* A slot of new Array(n) nothing was assigned to.
EmptySlot == [empty |-> TRUE]

TaskSuccess(index, result) == [index |-> index, success |-> TRUE, result |-> result]

TaskFailure(index, error) ==
    [index |-> index, success |-> FALSE, error |-> toError(error)]

\* A pool without the limit of opts.concurrency.
workerCountOnePerItem(opts, items) == Len(items)

\* Math.min(opts.concurrency, items.length)
workerCount(opts, items) == Min(opts.concurrency, Len(items))

\* A pool that goes on after a failure.
stopRequestedNever(opts, hasError) == FALSE

\* if (opts.stopOnError && hasError) return;
stopRequested(opts, hasError) == opts.stopOnError /\ hasError

\* results[index] = { index, ... }
storeResult(results, index, r) == [results EXCEPT ![index + 1] = r]

ParPending == [state |-> "pending", value |-> <<>>, error |-> NoThrown]

ParFulfilled(results) == [state |-> "fulfilled", value |-> results, error |-> NoThrown]

ParRejected(error) == [state |-> "rejected", value |-> <<>>, error |-> error]

Worker(wpc, index) == [pc |-> wpc, index |-> index]

NewPar(mode, items, options) ==
    [mode |-> mode, pc |-> "start", items |-> items, opts |-> mergeOptions(options),
     currentIndex |-> 0, hasError |-> FALSE,
     results |-> [k \in 1..Len(items) |-> EmptySlot],
     workers |-> <<>>, started |-> <<>>, failures |-> <<>>,
     promise |-> ParPending]

ParOff == [NewPar("off", <<>>, [stopOnError |-> FALSE]) EXCEPT !.pc = "off"]

\* runNext() of worker w from the top of its while loop up to its next
\* await (fn is invoked, the worker waits) or to its return.
RECURSIVE runNextLoop(_, _)
runNextLoop(p, w) ==
    IF p.currentIndex < Len(p.items)
    THEN IF stopRequested(p.opts, p.hasError)
         THEN [p EXCEPT !.workers[w] = Worker("returned", -1)]
         ELSE LET index == p.currentIndex
                  taken == [p EXCEPT !.currentIndex = @ + 1]
              IN  IF p.items[index + 1] = Undefined
                  THEN runNextLoop(taken, w)
                  ELSE [taken EXCEPT !.workers[w] = Worker("await", index),
                                     !.started = Append(@, index)]
    ELSE [p EXCEPT !.workers[w] = Worker("returned", -1)]

\* Array.from({ length }, () => runNext()): the workers start one after the
\* other, each running up to its first await.
RECURSIVE startWorkers(_, _, _)
startWorkers(p, w, count) ==
    IF w > count THEN p
    ELSE startWorkers(runNextLoop([p EXCEPT !.workers = Append(@, Worker("new", -1))], w),
                      w + 1, count)

\* await Promise.all(workers); return results: Promise.all fulfils once every
\* worker has returned and rejects with the error of the first worker that
\* throws. A promise that has settled stays as it is.
promiseAll(p, thrown) ==
    IF p.promise.state # "pending" THEN p
    ELSE IF thrown # NoThrown THEN [p EXCEPT !.promise = ParRejected(thrown), !.pc = "settled"]
    ELSE IF \A w \in 1..Len(p.workers) : p.workers[w].pc = "returned"
    THEN [p EXCEPT !.promise = ParFulfilled(p.results), !.pc = "settled"]
    ELSE p

\* parallel(items, fn, options) up to its await.
ParallelStart ==
    /\ par.mode = "parallel"
    /\ par.pc = "start"
    /\ par' = promiseAll(startWorkers([par EXCEPT !.pc = "running"], 1,
                                      workerCount(par.opts, par.items)),
                         NoThrown)
    /\ UNCHANGED <<pipelineVars, call, review, norm, pr, backoff>>

\* The promise of fn that worker w awaits settles and the worker runs on:
\* it stores the TaskResult, then throws (stopOnError) or loops.
ParallelTaskSettles(w, outcome) ==
    /\ par.mode = "parallel"
    /\ w \in 1..Len(par.workers)
    /\ par.workers[w].pc = "await"
    /\ LET index == par.workers[w].index
           item == par.items[index + 1]
       IN  IF outcome = "fulfil"
           THEN par' = promiseAll(
                    runNextLoop([par EXCEPT !.results =
                                     storeResult(@, index,
                                         TaskSuccess(index, fnResult(item, index)))], w),
                    NoThrown)
           ELSE LET error == fnThrown(outcome, index)
                    caught == [par EXCEPT !.hasError = TRUE,
                                          !.results = storeResult(@, index,
                                                          TaskFailure(index, error)),
                                          !.failures = Append(@, [index |-> index,
                                                                  error |-> error])]
                IN  IF par.opts.stopOnError
                    THEN par' = promiseAll([caught EXCEPT !.workers[w] =
                                                Worker("threw", index)], error)
                    ELSE par' = promiseAll(runNextLoop(caught, w), NoThrown)
    /\ UNCHANGED <<pipelineVars, call, review, norm, pr, backoff>>

\* allSettled(items, fn) up to its await: items.map invokes fn for every
\* item in turn; task k is the async callback of item k - 1.
AllSettledStart ==
    /\ par.mode = "allSettled"
    /\ par.pc = "start"
    /\ par' = promiseAll([par EXCEPT !.pc = "running",
                                     !.workers = [k \in 1..Len(par.items) |->
                                                     Worker("await", k - 1)],
                                     !.started = [k \in 1..Len(par.items) |-> k - 1]],
                         NoThrown)
    /\ UNCHANGED <<pipelineVars, call, review, norm, pr, backoff>>

\* The promise of fn for item w - 1 settles: the callback returns its
\* TaskResult, and Promise.all places it by the position of the promise.
AllSettledTaskSettles(w, outcome) ==
    /\ par.mode = "allSettled"
    /\ w \in 1..Len(par.workers)
    /\ par.workers[w].pc = "await"
    /\ LET index == par.workers[w].index
           item == par.items[index + 1]
           r == IF outcome = "fulfil"
                THEN TaskSuccess(index, fnResult(item, index))
                ELSE TaskFailure(index, fnThrown(outcome, index))
       IN  par' = promiseAll([par EXCEPT
                       !.workers[w] = Worker("returned", index),
                       !.results[w] = r,
                       !.failures = IF outcome = "fulfil" THEN @
                                    ELSE Append(@, [index |-> index,
                                                    error |-> fnThrown(outcome, index)])],
                   NoThrown)
    /\ UNCHANGED <<pipelineVars, call, review, norm, pr, backoff>>

(***************************************************************************)
(* The comment of the review on the pull request: postOrUpdateComment      *)
(*                                                                         *)
(* A comment is its id and whether its body holds the marker pattern; the  *)
(* pull request lists its comments in the order they were created.         *)
(***************************************************************************)

per_page == 100

Runs == 1..2

MaxCalls == 2

MaxOtherComments == 2

NoComment == 0

IssueComment(id, marker) == [id |-> id, marker |-> marker]

\* octokit.issues.listComments with per_page: the first page.
listComments(comments) == SubSeq(comments, 1, Min(per_page, Len(comments)))

\* findExistingComment: the id of the first listed comment whose body holds
\* the marker pattern, or null.
findExistingComment(comments) ==
    LET page == listComments(comments)
        hits == { k \in 1..Len(page) : page[k].marker }
    IN  IF hits = {} THEN NoComment
        ELSE page[CHOOSE k \in hits : \A m \in hits : k <= m].id

RunIdle == [pc |-> "idle", existingCommentId |-> NoComment, calls |-> 0]

\* overlapped: some call began while another was under way.
PrOff == [comments |-> <<>>, run |-> [r \in Runs |-> RunIdle], others |-> 0,
          overlapped |-> FALSE]

\* Comments of other people, any number of them, before the review runs.
OtherComments(n) == [k \in 1..n |-> IssueComment(k, FALSE)]

\* A run calls postOrUpdateComment.
PostOrUpdateStart(r) ==
    /\ pr.run[r].pc = "idle"
    /\ pr.run[r].calls < MaxCalls
    /\ pr' = [pr EXCEPT !.run[r].pc = "listing", !.run[r].calls = @ + 1,
                        !.overlapped = @ \/ \E q \in Runs : pr.run[q].pc # "idle"]
    /\ UNCHANGED <<pipelineVars, call, review, norm, backoff, par>>

\* The list of comments has arrived: findExistingComment returns.
FindExistingCommentReturns(r) ==
    /\ pr.run[r].pc = "listing"
    /\ pr' = [pr EXCEPT !.run[r].pc = "found",
                        !.run[r].existingCommentId = findExistingComment(pr.comments)]
    /\ UNCHANGED <<pipelineVars, call, review, norm, backoff, par>>

\* octokit.issues.updateComment: the body of the comment found is replaced;
\* the new body holds the marker as the old one did.
UpdateComment(r) ==
    /\ pr.run[r].pc = "found"
    /\ pr.run[r].existingCommentId # NoComment
    /\ pr' = [pr EXCEPT !.run[r].pc = "idle"]
    /\ UNCHANGED <<pipelineVars, call, review, norm, backoff, par>>

\* octokit.issues.createComment: a new comment with the marker.
CreateComment(r) ==
    /\ pr.run[r].pc = "found"
    /\ pr.run[r].existingCommentId = NoComment
    /\ pr' = [pr EXCEPT !.run[r].pc = "idle",
                        !.comments = Append(@, IssueComment(Len(@) + 1, TRUE))]
    /\ UNCHANGED <<pipelineVars, call, review, norm, backoff, par>>

\* Somebody else comments on the pull request.
OtherCommentPosted ==
    /\ pr.others < MaxOtherComments
    /\ pr' = [pr EXCEPT !.others = @ + 1,
                        !.comments = Append(@, IssueComment(Len(@) + 1, FALSE))]
    /\ UNCHANGED <<pipelineVars, call, review, norm, backoff, par>>

PipelineOff ==
    /\ input = InputOff
    /\ entry = Null
    /\ pc = "off"
    /\ scan = <<>>
    /\ order = <<>>
    /\ scannerResults = <<>>
    /\ judge = JudgeIdle
    /\ judgeResult = NoJudgeResult
    /\ posted = <<>>
    /\ exit = Null

InitCall ==
    /\ PipelineOff
    /\ review = ReviewOff
    /\ norm = NormOff
    /\ pr = PrOff
    /\ backoff = <<>>
    /\ par = ParOff
    /\ call \in { NewCall(c) : c \in Clients }

\* run() and reviewPR() fetch the diff first; the other two are handed it.
Init ==
    /\ input \in RunInputs
    /\ entry \in Entries
    /\ pc = IF entry \in {"run", "reviewPR"} THEN "start" ELSE "diffReady"
    /\ scan = [i \in Scanners |-> ScanIdle]
    /\ order = <<>>
    /\ scannerResults = <<>>
    /\ judge = JudgeIdle
    /\ judgeResult = NoJudgeResult
    /\ posted = <<>>
    /\ exit = Null
    /\ call = CallOff
    /\ review = ReviewOff
    /\ norm = NormOff
    /\ pr = PrOff
    /\ backoff = <<>>
    /\ par = ParOff

NextCall ==
    \/ \E resp \in CallResponses, j \in JitterChoices(1) \cup JitterChoices(2) :
          CallFetchSettles(resp, j)
    \/ CallSleepDone
    \/ \E k \in 1..maxRetries : CallLateTimerFires(k)

SpecCall == InitCall /\ [][NextCall]_vars

InitJudge ==
    /\ PipelineOff
    /\ call = CallOff
    /\ norm = NormOff
    /\ pr = PrOff
    /\ backoff = <<>>
    /\ par = ParOff
    /\ review \in { [stage |-> "response", language |-> l, response |-> r,
                     final |-> NoReview, injected |-> NoInjection] :
                        l \in ReviewLanguages,
                        r \in JudgeResponses \cup ProseResponses \cup SeverityResponses }

NextJudge == JudgeReviewsParse

InitRoundTrip ==
    /\ PipelineOff
    /\ call = CallOff
    /\ norm = NormOff
    /\ pr = PrOff
    /\ backoff = <<>>
    /\ par = ParOff
    /\ review \in { [stage |-> "composed", language |-> l,
                     response |-> ComposeResponse(l, inj),
                     final |-> NoReview, injected |-> inj] :
                        l \in OutputLanguages, inj \in Injections }

NextRoundTrip == ParseBack

SpecRoundTrip == InitRoundTrip /\ [][NextRoundTrip]_vars

SpecJudge == InitJudge /\ [][NextJudge]_vars

InitDiff ==
    /\ PipelineOff
    /\ pr = PrOff
    /\ backoff = <<>>
    /\ par = ParOff
    /\ call = CallOff
    /\ review = ReviewOff
    /\ norm \in { [stage |-> "fetched", allFiles |-> fs, maxFiles |-> mf,
                   maxChars |-> mc, result |-> NoDiff] :
                      fs \in FileLists, mf \in 1..MaxFileCount, mc \in 1..MaxChars }

NextDiff == NormalizeDiffReturns

SpecDiff == InitDiff /\ [][NextDiff]_vars

InitDelay ==
    /\ PipelineOff
    /\ call = CallOff
    /\ review = ReviewOff
    /\ norm = NormOff
    /\ pr = PrOff
    /\ backoff = <<>>
    /\ par = ParOff

NextDelay ==
    \E jitterAmount \in UNION { JitterChoices(k) : k \in 1..MaxRetry } :
        CalculateDelayReturns(jitterAmount)

SpecDelay == InitDelay /\ [][NextDelay]_vars

InitComment ==
    /\ PipelineOff
    /\ call = CallOff
    /\ review = ReviewOff
    /\ norm = NormOff
    /\ \E n \in {0, per_page - 1, per_page} :
          pr = [PrOff EXCEPT !.comments = OtherComments(n)]
    /\ backoff = <<>>
    /\ par = ParOff

NextComment ==
    \/ \E r \in Runs : PostOrUpdateStart(r)
    \/ \E r \in Runs : FindExistingCommentReturns(r)
    \/ \E r \in Runs : UpdateComment(r)
    \/ \E r \in Runs : CreateComment(r)
    \/ OtherCommentPosted

SpecComment == InitComment /\ [][NextComment]_vars

InitParallel ==
    /\ PipelineOff
    /\ call = CallOff
    /\ review = ReviewOff
    /\ norm = NormOff
    /\ pr = PrOff
    /\ backoff = <<>>
    /\ par \in { NewPar("parallel", items, options) :
                     items \in ItemLists, options \in PoolOptions }
                \cup { NewPar("allSettled", items, [stopOnError |-> FALSE]) :
                          items \in ItemLists }

NextParallel ==
    \/ ParallelStart
    \/ \E w \in 1..MaxItems, outcome \in FnOutcomes : ParallelTaskSettles(w, outcome)
    \/ AllSettledStart
    \/ \E w \in 1..MaxItems, outcome \in FnOutcomes : AllSettledTaskSettles(w, outcome)

SpecParallel == InitParallel /\ [][NextParallel]_vars

Jitters == JitterChoices(1) \cup JitterChoices(2)

Next ==
    \/ \E outcome \in {"diff", "empty", "throws"}, postOk \in BOOLEAN :
          NormalizeDiffSettles(outcome, postOk)
    \/ RunScannersStart
    \/ \E i \in Scanners, resp \in ScannerResponses, j \in Jitters :
          ScannerFetchSettles(i, resp, j)
    \/ \E i \in Scanners : ScannerSleepDone(i)
    \/ RunScannersReturn
    \/ \E postOk \in BOOLEAN : JudgeStart(postOk)
    \/ \E resp \in PipelineResponses, j \in Jitters : JudgeFetchSettles(resp, j)
    \/ JudgeSleepDone
    \/ \E postOk \in BOOLEAN : Finish(postOk)

Spec == Init /\ [][Next]_vars

IsHttp(resp, status) == resp.kind = "http" /\ resp.status = status

(* C3: callOpenRouter (the client taking an OpenRouterConfig) never retries
   a response with status 400: whatever the error body, no request follows
   the 400 response, no backoff sleep follows it, and the call fails with
   the 400 error; a call whose first response is a 400 made exactly one
   request. *)
C3_BadRequestNeverRetried ==
    (call.client = "config") =>
        \A k \in 1..Len(call.history) :
            IsHttp(call.history[k], 400) =>
                /\ call.pc = "done"
                /\ Len(call.history) = k
                /\ call.requests = k
                /\ Len(call.sleeps) = k - 1
                /\ call.result.next = "throw"
                /\ call.result.error = ApiError(400, call.history[k].text)

RetryableFailure(resp) ==
    \/ resp.kind = "abort"
    \/ resp.kind = "network"
    \/ (resp.kind = "http" /\ (resp.status = 429 \/ resp.status \in 500..599))

Success(resp) == resp.kind = "http" /\ resp.status = 200 /\ resp.text # <<>>

(* C4: a callOpenRouter call whose attempts fail with 429, a 5xx status or a
   network/timeout error is retried up to 2 additional times and never more:
   at most 3 requests are sent, every such failure of attempt 1 or 2 is
   followed by a sleep and another request, the sleeps are 1000 ms after the
   first failure and 2000 ms after the second, and a success ends the call
   with no further request. *)
C4_RetrySchedule ==
    (call.client = "config") =>
        /\ call.requests <= 3
        /\ Len(call.sleeps) <= 2
        /\ \A k \in 1..Len(call.sleeps) : call.sleeps[k] = 1000 * Pow(2, k - 1)
        /\ \A k \in 1..Len(call.sleeps) : k > 1 => call.sleeps[k] > call.sleeps[k - 1]
        /\ Len(call.sleeps) = (IF call.pc = "sleep" THEN call.requests
                               ELSE call.requests - 1)
        /\ \A k \in 1..Len(call.history) :
              /\ (RetryableFailure(call.history[k]) /\ k < 3) =>
                    Len(call.sleeps) >= k
              /\ Success(call.history[k]) =>
                    /\ call.pc = "done"
                    /\ Len(call.history) = k
                    /\ call.requests = k
                    /\ call.result.next = "return"
        /\ (call.pc = "done" /\ RetryableFailure(call.history[Len(call.history)])) =>
              /\ call.requests = 3
              /\ call.result.next = "throw"

C4_Witness ==
    /\ call.client = "config"
    /\ call.pc = "done"
    /\ call.requests = 3
    /\ call.sleeps = <<1000, 2000>>
    /\ IsHttp(call.history[1], 429)
    /\ call.history[2].kind = "abort"
    /\ IsHttp(call.history[3], 503)
    /\ call.result.next = "throw"

(***************************************************************************)
(* The scanner fan-out and the judge step                                  *)
(***************************************************************************)

\* runScanners has returned its array.
ScannersReturned == pc \in {"scanned", "judging", "judged"}

(* C1: runScanners returns exactly one outcome per configured scanner model,
   in the order of the configured model list: outcome i is the outcome of
   the call made for model i, whatever order the calls settled in and
   whichever of them failed. *)
C1_OneOutcomePerModelInOrder ==
    ScannersReturned =>
        /\ Len(scannerResults) = Len(models)
        /\ \A i \in 1..Len(scannerResults) :
              /\ scannerResults[i].model = models[i]
              /\ scannerResults[i] = scan[i].promise.value

C1_Witness ==
    /\ pc = "scanned"
    /\ order = <<2, 1>>
    /\ ~scannerResults[1].success
    /\ scannerResults[2].success
    /\ scannerResults[1].model = "model1"
    /\ scan[1].attempt > scan[2].attempt

\* runScanners rejected: the pipeline ended after the scanners had started
\* and without an array of outcomes.
RunScannersRejected ==
    /\ pc = "done"
    /\ scannerResults = <<>>
    /\ \E i \in Scanners : scan[i].pc # "idle"

\* The last response of a call is a failure for the client: the call throws.
FailedFor(client, resp) ==
    \/ resp.kind # "http"
    \/ resp.status # 200
    \/ (client = "config" /\ resp.text = <<>>)

\* The message of the error a client throws for a failure response.
MessageFor(resp) ==
    CASE resp.kind = "abort" -> <<"This", "operation", "was", "aborted">>
      [] resp.kind = "http" /\ resp.status # 200 ->
            <<"OpenRouter", "API", "error", ToString(resp.status)>> \o resp.text
      [] OTHER -> <<"OpenRouter", "returned", "empty", "response">>

OutputOf(outcome) ==
    IF "output" \in DOMAIN outcome THEN outcome.output ELSE outcome.rawResponse

(* C2: runScanners never fails because scanner calls failed: no scanner
   promise rejects and runScanners never rejects; every model whose call
   failed after its retries gets an outcome with success = false (status
   FAILED where the outcome has a status) carrying the error message, and
   every other model gets the successful outcome of its own response,
   whatever the other models' calls did. *)
C2_FailuresBecomeOutcomes ==
    /\ ~RunScannersRejected
    /\ \A i \in Scanners :
          scan[i].pc = "done" =>
              LET p == scan[i].promise
                  client == ClientOf(entry)
              IN  /\ ~p.rejected
                  /\ p.value.model = models[i]
                  /\ IF FailedFor(client, scan[i].last)
                     THEN /\ p.value.success = FALSE
                          /\ p.value.error = MessageFor(scan[i].last)
                          /\ OutputOf(p.value) = <<>>
                          /\ (client = "config") => p.value.status = "FAILED"
                     ELSE /\ p.value.success = TRUE
                          /\ OutputOf(p.value) = scan[i].last.text
                          /\ (client = "config") => p.value.status # "FAILED"
    /\ ScannersReturned =>
          \A i \in Scanners : scannerResults[i] = scan[i].promise.value

C2_Witness ==
    /\ entry = "run"
    /\ pc = "scanned"
    /\ scannerResults[1].success = FALSE
    /\ scannerResults[1].status = "FAILED"
    /\ scannerResults[1].error = <<"OpenRouter", "API", "error", "503", "unavailable">>
    /\ scan[1].attempt = 2
    /\ scannerResults[2].success = TRUE
    /\ scannerResults[2].output = <<"finding">>

(* C5: in run(), reviewPR() and runFullReview() the request to the judge
   model is sent only after every scanner call of the run has settled, all
   its retries and backoff sleeps included: while a scanner call is in
   flight or sleeping no judge request has been sent. *)
C5_JudgeAfterAllScannersSettle ==
    (judge.requests > 0 \/ judge.pc # "idle" \/ judgeResult # NoJudgeResult) =>
        \A i \in Scanners : scan[i].pc = "done"

C5_Witness ==
    /\ entry = "reviewPR"
    /\ judge.pc = "fetch"
    /\ judge.requests = 1
    /\ scan[1].attempt = 3
    /\ ~scan[1].promise.value.success
    /\ scan[2].promise.value.success
    /\ order = <<2, 1>>

\* The judge step has been entered with the scanners' outcomes.
JudgeStepEntered ==
    \/ pc \in {"judging", "judged"}
    \/ (pc = "done" /\ Len(scannerResults) > 0)

NoneSuccessful == \A i \in 1..Len(scannerResults) : ~scannerResults[i].success

(* C6: when no scanner outcome is successful the judge step fails without
   sending any request to the judge model: judgeReviews throws the
   no-successful-scanner error and runJudge returns a result with
   success = false; when at least one outcome is successful the judge model
   is called. *)
C6_NoSuccessfulScannerNoJudgeCall ==
    JudgeStepEntered =>
        IF NoneSuccessful
        THEN /\ judge.requests = 0
             /\ judge.pc = "idle"
             /\ (entry \in {"reviewPR", "runFullReview"}) =>
                    judgeResult = Thrown(NoSuccessfulError)
             /\ (entry = "runJudge") =>
                    /\ judgeResult.kind = "JudgeResult"
                    /\ judgeResult.success = FALSE
             /\ (entry = "run") => judgeResult = NoJudgeResult
        ELSE /\ judge.requests >= 1
             /\ judge.pc # "idle"

C6_Witness ==
    /\ entry = "reviewPR"
    /\ pc = "judged"
    /\ NoneSuccessful
    /\ Len(scannerResults) = NumScanners
    /\ judge.requests = 0
    /\ judgeResult.kind = "thrown"

C6_WitnessRunJudge ==
    /\ entry = "runJudge"
    /\ pc = "judged"
    /\ NoneSuccessful
    /\ judgeResult.kind = "JudgeResult"
    /\ ~judgeResult.success

(***************************************************************************)
(* The verdict of the FinalReview                                          *)
(***************************************************************************)

HasSeverity(findings, sev) == \E k \in 1..Len(findings) : findings[k].severity = sev

HighFindings(findings) == { k \in 1..Len(findings) : findings[k].severity = "high" }

(* C7: the verdict of the FinalReview returned by judgeReviews follows the
   override policy: request-changes if at least one finding is critical;
   else request-changes if more than 2 findings are high; else approve if
   no finding was parsed; otherwise the verdict parsed from the judge text,
   unchanged. *)
C7_VerdictOverridePolicy ==
    (review.stage = "returned") =>
        LET f == review.final.findings
        IN  /\ f = parseFindings(review.response, review.language)
            /\ review.final.verdict =
                  IF HasSeverity(f, "critical") THEN "request-changes"
                  ELSE IF Cardinality(HighFindings(f)) > 2 THEN "request-changes"
                  ELSE IF f = <<>> THEN "approve"
                  ELSE extractVerdict(review.response, review.language)

C7_Witness ==
    /\ review.stage = "returned"
    /\ Cardinality(HighFindings(review.final.findings)) = 3
    /\ ~HasSeverity(review.final.findings, "critical")
    /\ extractVerdict(review.response, review.language) = "approve"
    /\ review.final.verdict = "request-changes"

C7_WitnessKept ==
    /\ review.stage = "returned"
    /\ Cardinality(HighFindings(review.final.findings)) = 2
    /\ Len(review.final.findings) = 2
    /\ extractVerdict(review.response, review.language) = "approve"
    /\ review.final.verdict = "approve"

(***************************************************************************)
(* The NormalizedDiff                                                      *)
(***************************************************************************)

DiffReturned == norm.stage = "returned"

(* C8: for every list of fetched files and every maxFiles > 0 and
   maxChars > 0, the TruncationInfo returned by normalizeDiff has
   filesReviewed <= filesFound and truncatedChars <= originalChars. *)
C8_TruncationInfoBounds ==
    DiffReturned =>
        LET t == norm.result.truncation
        IN  /\ t.filesFound = Len(norm.allFiles)
            /\ t.filesReviewed = Len(norm.result.files)
            /\ t.truncatedChars = Len(norm.result.combinedDiff)
            /\ t.filesReviewed <= t.filesFound
            /\ t.truncatedChars <= t.originalChars

C8_Witness ==
    /\ DiffReturned
    /\ norm.result.truncation.filesReviewed < norm.result.truncation.filesFound
    /\ norm.result.truncation.truncatedChars < norm.result.truncation.originalChars
    /\ norm.result.truncation.truncatedChars < norm.maxChars

\* The positions in the fetched list of the files that have a patch.
PatchedAt(files) == { i \in 1..Len(files) : files[i].patch # "" }

\* The number of patched files that come before the one at i when the
\* patched files are ordered by descending additions+deletions, ties in
\* source order.
Before(files, i) ==
    { j \in PatchedAt(files) :
          \/ Change(files[j]) > Change(files[i])
          \/ Change(files[j]) = Change(files[i]) /\ j < i }

FileOfRank(files, k) ==
    files[CHOOSE i \in PatchedAt(files) : Cardinality(Before(files, i)) = k - 1]

(* C9: when the number of fetched files exceeds maxFiles, the files kept
   are exactly the first maxFiles of the files with a non-empty patch,
   ordered by descending additions+deletions with ties in source order, so
   no file with an empty patch is kept while a file with a non-empty patch
   is dropped; when the number does not exceed maxFiles, all files are kept
   in source order. *)
C9_FilesKept ==
    DiffReturned =>
        LET all == norm.allFiles
            kept == norm.result.files
        IN  IF Len(all) > norm.maxFiles
            THEN /\ Len(kept) = Min(norm.maxFiles, Cardinality(PatchedAt(all)))
                 /\ \A k \in 1..Len(kept) : kept[k] = FileOfRank(all, k)
                 /\ ~ /\ \E k \in 1..Len(kept) : kept[k].patch = ""
                      /\ \E i \in PatchedAt(all) :
                            \A k \in 1..Len(kept) : kept[k] # all[i]
            ELSE kept = all

C9_Witness ==
    /\ DiffReturned
    /\ Len(norm.allFiles) > norm.maxFiles
    /\ Len(norm.result.files) = 2
    /\ Change(norm.result.files[1]) > Change(norm.result.files[2])
    /\ \E i, j \in 1..Len(norm.allFiles) :
          /\ i < j
          /\ norm.allFiles[i] = norm.result.files[2]
          /\ norm.allFiles[j] = norm.result.files[1]
    /\ \E i \in 1..Len(norm.allFiles) :
          /\ norm.allFiles[i].patch = ""
          /\ Change(norm.allFiles[i]) > Change(norm.result.files[1])

C9_WitnessAllKept ==
    /\ DiffReturned
    /\ Len(norm.allFiles) = norm.maxFiles
    /\ \E i \in 1..Len(norm.allFiles) : norm.allFiles[i].patch = ""
    /\ norm.result.files = norm.allFiles

\* The combined diff before the cut, and the markers in its first maxChars
\* characters.
Uncut == buildCombinedDiff(norm.result.files)

MarkersInCut ==
    { i \in 0..(norm.maxChars - Len(DiffMarker)) :
          SubSeq(Uncut, i + 1, i + Len(DiffMarker)) = DiffMarker }

LastMarker == CHOOSE i \in MarkersInCut : \A j \in MarkersInCut : i >= j

\* The text is the sections of the first k patched files, each complete,
\* the newline that ends the last one included.
CompleteSections(text) ==
    \E k \in 1..Len(WithPatch(norm.result.files)) :
        text = buildCombinedDiff(SubSeq(WithPatch(norm.result.files), 1, k)) \o "\n"

(* C10: when the combined diff is longer than maxChars and, within its
   first maxChars characters, the last file-boundary marker (a newline
   followed by 'diff --git') lies at an index greater than maxChars/2,
   normalizeDiff cuts the text exactly at that marker, so the result holds
   only complete file sections and no partial file patch; otherwise the
   result is exactly the first maxChars characters. *)
C10_CutAtFileBoundary ==
    (DiffReturned /\ Len(Uncut) > norm.maxChars) =>
        IF MarkersInCut # {} /\ 2 * LastMarker > norm.maxChars
        THEN /\ norm.result.combinedDiff = SubSeq(Uncut, 1, LastMarker)
             /\ CompleteSections(norm.result.combinedDiff)
        ELSE norm.result.combinedDiff = SubSeq(Uncut, 1, norm.maxChars)

C10_Witness ==
    /\ DiffReturned
    /\ Len(Uncut) > norm.maxChars
    /\ Cardinality(MarkersInCut) = 2
    /\ 2 * LastMarker > norm.maxChars
    /\ Len(norm.result.combinedDiff) = LastMarker
    /\ Len(norm.result.combinedDiff) < norm.maxChars

C10_WitnessNoCut ==
    /\ DiffReturned
    /\ Len(Uncut) > norm.maxChars
    /\ MarkersInCut # {}
    /\ 2 * LastMarker <= norm.maxChars
    /\ Len(norm.result.combinedDiff) = norm.maxChars

FileLimitExceeded == Len(norm.allFiles) > norm.maxFiles

CharLimitExceeded == Len(Uncut) > norm.maxChars

FileReasonText ==
    "Limited to " \o ToString(norm.maxFiles) \o " files (found "
        \o ToString(Len(norm.allFiles)) \o ")"

CharReasonText ==
    "Truncated to " \o ToString(norm.maxChars) \o " chars (original "
        \o ToString(Len(Uncut)) \o ")"

(* C21: in every NormalizedDiff, wasTruncated is true exactly when a
   truncation reason is present, and a reason is present exactly when the
   file-count limit was exceeded or the character limit was exceeded; when
   both were exceeded the reason is the file-count reason followed by '; '
   and the character reason. *)
C21_TruncationReason ==
    DiffReturned =>
        LET t == norm.result.truncation
        IN  /\ t.wasTruncated <=> (t.truncationReason # Null)
            /\ (t.truncationReason # Null) <=> (FileLimitExceeded \/ CharLimitExceeded)
            /\ (FileLimitExceeded /\ CharLimitExceeded) =>
                   t.truncationReason = FileReasonText \o "; " \o CharReasonText
            /\ (FileLimitExceeded /\ ~CharLimitExceeded) =>
                   t.truncationReason = FileReasonText
            /\ (~FileLimitExceeded /\ CharLimitExceeded) =>
                   t.truncationReason = CharReasonText

C21_Witness ==
    /\ DiffReturned
    /\ FileLimitExceeded
    /\ CharLimitExceeded
    /\ norm.result.truncation.wasTruncated
    /\ norm.maxFiles = 2
    /\ norm.maxChars = 50
    /\ Len(norm.allFiles) = 3
    /\ Len(norm.result.truncation.truncationReason)
          > Len("Limited to 2 files (found 3); ")

C21_WitnessNotTruncated ==
    /\ DiffReturned
    /\ Len(norm.allFiles) = norm.maxFiles
    /\ Len(Uncut) = norm.maxChars
    /\ ~norm.result.truncation.wasTruncated

NoFileHasPatch == \A i \in 1..Len(norm.allFiles) : norm.allFiles[i].patch = ""

(* C22: when every fetched file lacks patch text, normalizeDiff returns an
   empty combined diff and wasTruncated = false, the same as for zero files,
   for every number of such files and every maxFiles > 0 and maxChars > 0. *)
C22_NoPatchIsLikeNoFiles ==
    (DiffReturned /\ NoFileHasPatch) =>
        /\ norm.result.combinedDiff = ""
        /\ norm.result.truncation.wasTruncated = FALSE

\* What does hold: the combined diff is empty, and wasTruncated is false as
\* long as the files are not more than maxFiles.
NoPatchWithinFileLimit ==
    (DiffReturned /\ NoFileHasPatch) =>
        /\ norm.result.combinedDiff = ""
        /\ norm.result.truncation.originalChars = 0
        /\ norm.result.truncation.wasTruncated <=> Len(norm.allFiles) > norm.maxFiles

(***************************************************************************)
(* The requests of the scanners                                            *)
(***************************************************************************)

\* The requests scanner i has sent so far.
SentBy(i) == { scan[i].sent[k] : k \in 1..Len(scan[i].sent) }

AllSent == UNION { SentBy(i) : i \in Scanners }

\* A scanner sends a request again after another scanner's call has settled.
ResentAfterSibling(i) ==
    /\ Len(scan[i].sent) >= 2
    /\ \E j \in Scanners \ {i} : scan[j].pc = "done"

(* C11: the request runScanners sends for a model depends only on the diff
   text, the configured language and that model's identifier: the prompt
   messages are the same for all models of a run and for every attempt,
   each request names its own model, and what another scanner returned,
   failed with or when it completed changes no request. *)
C11_ScannerRequestIsolation ==
    /\ \A r1, r2 \in AllSent : r1.messages = r2.messages
    /\ \A i \in Scanners : \A r \in SentBy(i) :
          /\ r.model \in {models[i], getModelId(models[i])}
          /\ \A j \in Scanners \ {i} : r.model \notin {models[j], getModelId(models[j])}
          /\ r = scan[i].sent[1]
    /\ \A i \in Scanners : \A r \in SentBy(i) : \A k \in 1..Len(r.messages) :
          LET text == r.messages[k].content
          IN  \/ text \in {SCANNER_SYSTEM_PROMPT,
                           buildScannerSystemPrompt(input.language),
                           buildScannerUserPrompt(input.diff),
                           buildScannerPrompt(input.diff, input.language)}

C11_Witness ==
    \E i \in Scanners :
        /\ ResentAfterSibling(i)
        /\ \E j \in Scanners \ {i} :
              /\ scan[j].pc = "done"
              /\ scan[j].promise.value.success
              /\ order # <<>> /\ order[1] = j

(***************************************************************************)
(* The judge prompt and the contributing models                            *)
(***************************************************************************)

\* The positions of the results that have success = true, in input order.
RECURSIVE SuccessfulAt(_, _)
SuccessfulAt(results, i) ==
    IF i > Len(results) THEN <<>>
    ELSE IF results[i].success = TRUE
    THEN <<i>> \o SuccessfulAt(results, i + 1)
    ELSE SuccessfulAt(results, i + 1)

JudgeReviewsEntry == entry \in {"reviewPR", "runFullReview"}

(* C12: judgeReviews builds the judge prompt from exactly the scanner
   results with success = true (an LGTM-only or contentless result counts,
   a failed one does not), in input order, and the contributingModels of
   the FinalReview are the model ids of exactly those results in the same
   order. *)
C12_JudgePromptFromSuccessfulResults ==
    JudgeReviewsEntry =>
        LET at == SuccessfulAt(scannerResults, 1)
        IN  /\ \A k \in 1..Len(judge.sent) :
                  LET reviews == judge.sent[k].messages[2].content.formattedReviews
                  IN  /\ Len(reviews) = Len(at)
                      /\ \A n \in 1..Len(at) :
                            /\ reviews[n].review = n
                            /\ reviews[n].model = scannerResults[at[n]].model
                            /\ reviews[n].text = scannerResults[at[n]].rawResponse
            /\ judgeResult.kind = "FinalReview" =>
                  /\ Len(judgeResult.contributingModels) = Len(at)
                  /\ \A n \in 1..Len(at) :
                        judgeResult.contributingModels[n] = scannerResults[at[n]].model

C12_Witness ==
    /\ JudgeReviewsEntry
    /\ judgeResult.kind = "FinalReview"
    /\ Len(scannerResults) = 2
    /\ ~scannerResults[1].success
    /\ scannerResults[2].success /\ scannerResults[2].rawResponse = <<>>
    /\ judgeResult.contributingModels = <<models[2]>>
    /\ Len(judge.sent[1].messages[2].content.formattedReviews) = 1

C12_WitnessLgtm ==
    /\ JudgeReviewsEntry
    /\ judgeResult.kind = "FinalReview"
    /\ scannerResults[1].success /\ scannerResults[1].rawResponse = <<"LGTM">>
    /\ scannerResults[2].success
    /\ Len(judgeResult.contributingModels) = 2

(***************************************************************************)
(* The timer of an attempt                                                 *)
(***************************************************************************)

ConfigCall == call.pc # "off" /\ call.client = "config"

TimerAborted(k) == k <= Len(call.history) /\ call.history[k] = AbortResponse

(* C13: in callOpenRouter every attempt arms its own timer; if the timer
   fires while the request is in flight the request is aborted and the
   abort is handled as a retryable failure: the call sleeps and retries
   when fewer than 3 attempts were made, and otherwise fails with the abort
   error. *)
C13_TimeoutAbortIsRetried ==
    ConfigCall =>
        /\ Len(call.timers) = call.requests
        /\ call.pc = "fetch" => call.timers[call.requests] = "armed"
        /\ \A k \in 1..Len(call.history) :
              /\ TimerAborted(k) => call.timers[k] = "fired"
              /\ call.timers[k] = "fired" =>
                    call.history[k] \in {AbortResponse, NetworkResponse}
              /\ (TimerAborted(k) /\ k < 3) =>
                    /\ Len(call.sleeps) >= k
                    /\ call.sleeps[k] = backoffDelays[k]
                    /\ call.pc = "sleep" \/ call.requests > k
              /\ (TimerAborted(k) /\ k = 3) =>
                    /\ call.pc = "done"
                    /\ call.result.next = "throw"
                    /\ call.result.error = AbortError

C13_Witness ==
    /\ ConfigCall
    /\ TimerAborted(1) /\ TimerAborted(3)
    /\ call.history[2] = NetworkResponse
    /\ call.timers = <<"fired", "fired", "fired">>
    /\ call.result.error = AbortError

(***************************************************************************)
(* The error of a call that gives up                                       *)
(***************************************************************************)

GaveUp == call.pc = "done" /\ call.result.next = "throw"

LastResponse == call.history[Len(call.history)]

\* The error carries the status and the body of the response.
CarriesStatus(error, resp) ==
    /\ error.name = "Error"
    /\ \E i \in 1..Len(error.message) :
          /\ error.message[i] = ToString(resp.status)
          /\ SubSeq(error.message, i + 1, Len(error.message)) = resp.text

(* C14: when callOpenRouter or withRetry gives up, because the retries are
   used up or the failure is not retryable, the error it raises is the
   error of the last attempt made, with its failure kind (the HTTP status,
   or the timeout or network kind) intact: never the error of an earlier
   attempt and never a generic replacement. *)
C14_LastErrorSurfaced ==
    GaveUp =>
        /\ Len(call.history) = call.requests
        /\ call.result.error # RetriesFailedError
        /\ CASE LastResponse.kind = "abort" -> call.result.error.name = "AbortError"
             [] LastResponse.kind = "network" -> call.result.error = FetchFailed
             [] LastResponse.kind = "badjson" -> call.result.error = JsonError
             [] LastResponse.kind = "http" /\ ~ResponseOk(LastResponse) ->
                    CarriesStatus(call.result.error, LastResponse)
             [] OTHER -> call.result.error = EmptyResponseError

C14_Witness ==
    /\ GaveUp
    /\ call.client = "config"
    /\ Len(call.history) = 3
    /\ call.history[1] = NetworkResponse
    /\ call.history[2].kind = "http" /\ call.history[2].status = 503
    /\ LastResponse = HttpResponse(500, <<"Bad", "request">>)
    /\ CarriesStatus(call.result.error, LastResponse)

C14_WitnessWithRetry ==
    /\ GaveUp
    /\ call.client = "withRetry"
    /\ Len(call.history) = 3
    /\ call.history[1].kind = "http" /\ call.history[1].status = 429
    /\ call.history[2].kind = "http" /\ call.history[2].status = 503
    /\ LastResponse = AbortResponse
    /\ call.result.error = AbortError

(***************************************************************************)
(* The failures makeRequest retries                                        *)
(***************************************************************************)

WithRetryCall == call.pc # "off" /\ call.client = "withRetry"

RateLimitedOrServerError(resp) ==
    resp.kind = "http" /\ (resp.status = 429 \/ (resp.status >= 500 /\ resp.status <= 599))

\* The call went on to another attempt after its k-th response.
RetriedAfter(k) == Len(call.sleeps) >= k

(* C15: OpenRouterClient.makeRequest classifies every failed response with
   status 429 or with a 5xx status as retryable, so such a failure is
   followed by another attempt whenever fewer than 3 attempts were made,
   and it classifies a 400 response as not retryable. *)
C15_MakeRequestRetryClasses ==
    WithRetryCall =>
        \A k \in 1..Len(call.history) :
            /\ (RateLimitedOrServerError(call.history[k]) /\ k < 3) => RetriedAfter(k)
            /\ IsHttp(call.history[k], 400) => ~RetriedAfter(k)

(***************************************************************************)
(* The status of a scanner outcome                                         *)
(***************************************************************************)

\* The texts that hold 'lgtm' or 'looks good' in some case, or nothing but
\* white space.
NothingToReport == { <<"LGTM">>, <<" ">>, <<"nit:", "Looks good">>, <<>> }

\* Scanner i's call returned a text to runSingleScanner, in the pipeline
\* whose outcomes carry a status.
ReturnedText(i) ==
    /\ ClientOf(entry) = "config"
    /\ scan[i].pc = "done"
    /\ ~scan[i].promise.rejected
    /\ scan[i].promise.value.status # "FAILED"

(* C16: runSingleScanner classifies a model call that returned text as
   SKIPPED when the text, compared without case, contains 'lgtm' or
   'looks good' anywhere or is empty after trimming, and as OK in every
   other case; SKIPPED and OK outcomes both have success = true. *)
C16_SkippedOrOk ==
    \A i \in DOMAIN scan :
        ReturnedText(i) =>
            LET outcome == scan[i].promise.value
            IN  /\ outcome.success = TRUE
                /\ outcome.output = scan[i].last.text
                /\ outcome.status =
                      IF outcome.output \in NothingToReport THEN "SKIPPED" ELSE "OK"

C16_Witness ==
    /\ Len(scan) = 2
    /\ ReturnedText(1) /\ ReturnedText(2)
    /\ scan[1].promise.value.output = <<"nit:", "Looks good">>
    /\ scan[1].promise.value.status = "SKIPPED"
    /\ scan[2].promise.value.output = <<"finding">>
    /\ scan[2].promise.value.status = "OK"

C16_WitnessUpperCase ==
    \E i \in DOMAIN scan :
        /\ ReturnedText(i)
        /\ scan[i].promise.value.output = <<"LGTM">>
        /\ scan[i].promise.value.status = "SKIPPED"

C16_WitnessWhiteSpace ==
    \E i \in DOMAIN scan :
        /\ ReturnedText(i)
        /\ scan[i].promise.value.output = <<" ">>
        /\ scan[i].promise.value.status = "SKIPPED"

\* The model answered scanner i's last request with HTTP 200 and no text.
AnsweredEmpty(i) ==
    /\ ClientOf(entry) = "config"
    /\ scan[i].pc = "done"
    /\ scan[i].last = HttpResponse(200, <<>>)

(* C17: a scanner model that answers successfully (HTTP 200) with empty
   text yields an outcome with status SKIPPED and success = true, not a
   FAILED outcome, when runSingleScanner calls it through callOpenRouter. *)
C17_EmptyAnswerIsSkipped ==
    \A i \in DOMAIN scan :
        AnsweredEmpty(i) =>
            /\ ~scan[i].promise.rejected
            /\ scan[i].promise.value.success = TRUE
            /\ scan[i].promise.value.status = "SKIPPED"

(***************************************************************************)
(* The findings parsed from the judge response                             *)
(***************************************************************************)

\* The severity named by a section header line: a heading ('##') with the
\* name of a severity section; "none" for any other line.
SectionSeverity(line, language) ==
    IF StartsSection(line) THEN HeaderSeverity(line, getSectionHeaders(language))
    ELSE "none"

\* A line that starts with a bullet marker and has more than 10 characters
\* of text after it.
IsFindingLine(line) ==
    /\ Len(line) >= 2
    /\ line[1] \in {"-", "*", "(bullet)"}
    /\ TextLength(Tail(line)) > 10

\* One <<severity, text>> per finding line, in line order, under the
\* severity of the last section header line above it.
RECURSIVE FindingLines(_, _, _)
FindingLines(lines, language, severity) ==
    IF lines = <<>> THEN <<>>
    ELSE IF SectionSeverity(Head(lines), language) # "none"
    THEN FindingLines(Tail(lines), language, SectionSeverity(Head(lines), language))
    ELSE IF IsFindingLine(Head(lines))
    THEN << <<severity, Tail(Head(lines))>> >>
             \o FindingLines(Tail(lines), language, severity)
    ELSE FindingLines(Tail(lines), language, severity)

(* C18: parseFindings emits exactly one Finding for every line of the judge
   response that starts with a bullet marker (-, *, bullet) and whose
   trimmed text is longer than 10 characters, in line order, tagged with
   the severity of the most recent severity-section header line above it
   (info before any header), and emits no Finding for any other line. *)
C18_OneFindingPerBulletLine ==
    (review.stage = "returned") =>
        LET expected == FindingLines(review.response, review.language, "info")
            findings == review.final.findings
        IN  /\ Len(findings) = Len(expected)
            /\ \A k \in 1..Len(expected) :
                  /\ findings[k].severity = expected[k][1]
                  /\ findings[k].description = expected[k][2]

(***************************************************************************)
(* The round trip of a composed response                                   *)
(***************************************************************************)

\* The injected findings as <<severity, text>>, in the order of the
\* sections.
Tagged(texts, severity) == [k \in 1..Len(texts) |-> <<severity, texts[k]>>]

InjectedFindings ==
    Tagged(review.injected.critical, "critical")
    \o Tagged(review.injected.high, "high")
    \o Tagged(review.injected.low, "low")

ParsedFindings ==
    [k \in 1..Len(review.final.findings) |->
        <<review.final.findings[k].severity, review.final.findings[k].description>>]

(* C19: round trip: for each of the 9 supported languages, a judge response
   composed with that language's section headers, a known summary, known
   bullet findings under each severity section and a known verdict is
   parsed back by extractSummary, parseFindings and extractVerdict to
   exactly the injected summary, the injected findings with their
   severities, and the injected verdict. *)
C19_RoundTrip ==
    (review.stage = "parsed") =>
        /\ review.final.summary = <<review.injected.summary>>
        /\ ParsedFindings = InjectedFindings
        /\ review.final.verdict = review.injected.verdict

\* The same, for the responses whose findings name no severity word.
NoSeverityWord ==
    \A sec \in {review.injected.critical, review.injected.high, review.injected.low} :
        \A k \in 1..Len(sec) : sec[k] # <<"Critical", "race", "condition">>

RoundTripWithoutSeverityWords ==
    (review.stage = "parsed" /\ NoSeverityWord) =>
        /\ review.final.summary = <<review.injected.summary>>
        /\ ParsedFindings = InjectedFindings
        /\ review.final.verdict = review.injected.verdict

(***************************************************************************)
(* A response in which nothing is recognised                               *)
(***************************************************************************)

\* No line of the response is a section header or a bullet, and no verdict
\* keyword is anywhere in it.
NothingRecognized ==
    /\ \A i \in 1..Len(review.response) :
          /\ HeaderSeverity(review.response[i], getSectionHeaders(review.language)) = "none"
          /\ ~StartsSection(review.response[i])
          /\ ~IsBulletLine(review.response[i])
    /\ \A k \in 1..Len(VerdictKeywords) :
          ~textIncludes(review.response, VerdictKeywords[k][1])

\* The fallback summary: the generic default when the response has no text,
\* else a run of lines of the response that holds its first line with text
\* and ends at the end of the response or before an empty line.
IsFallbackSummary(summary) ==
    LET r == review.response
    IN  IF \A i \in 1..Len(r) : IsBlank(r[i])
        THEN summary = << <<"Review", "completed.">> >>
        ELSE \E a \in 1..Len(r) : \E b \in a..Len(r) :
                /\ summary = SubSeq(r, a, b)
                /\ \E i \in a..b : ~IsBlank(r[i]) /\ \A j \in 1..(i - 1) : IsBlank(r[j])
                /\ b = Len(r) \/ IsBlank(r[b + 1])

(* C20: as stated: when the judge response has no recognizable section header,
   no bullet line and no verdict keyword, judgeReviews returns a FinalReview
   made of the fallbacks: an empty findings list, the fallback summary (first
   paragraph or the generic default) and the verdict comment. *)
C20_FallbackReviewComment ==
    (review.stage = "returned" /\ NothingRecognized) =>
        /\ review.final.findings = <<>>
        /\ IsFallbackSummary(review.final.summary)
        /\ review.final.verdict = "comment"

(* C20: amended: when the judge response has no recognizable section header,
   no bullet line and no verdict keyword, judgeReviews does not fail and
   returns a FinalReview with an empty findings list, the fallback summary
   (first paragraph or the generic default), and the verdict approve: the
   comment that extractVerdict falls back to is replaced by the override for
   zero findings. *)
C20_FallbackReviewApproves ==
    /\ (review.stage = "response" /\ NothingRecognized) => ENABLED JudgeReviewsParse
    /\ (review.stage = "returned" /\ NothingRecognized) =>
          /\ review.final.findings = <<>>
          /\ review.final.stats = [critical |-> 0, high |-> 0, medium |-> 0,
                                   low |-> 0, info |-> 0]
          /\ IsFallbackSummary(review.final.summary)
          /\ extractVerdict(review.response, review.language) = "comment"
          /\ review.final.verdict = "approve"

\* Two paragraphs of prose: the summary is the first.
C20_Witness ==
    /\ review.stage = "returned"
    /\ NothingRecognized
    /\ review.response = << <<"Nothing", "to", "report.">>, <<>>, <<"All", "fine.">> >>
    /\ review.final.summary = << <<"Nothing", "to", "report.">> >>

\* No text at all: the generic default.
C20_WitnessDefault ==
    /\ review.stage = "returned"
    /\ NothingRecognized
    /\ review.response = << <<>>, <<>> >>
    /\ review.final.summary = << <<"Review", "completed.">> >>

(***************************************************************************)
(* One comment per marker                                                  *)
(***************************************************************************)

MarkerComments == { k \in 1..Len(pr.comments) : pr.comments[k].marker }

(* C23: postOrUpdateComment is idempotent per marker: repeated calls with the
   same marker on the same pull request update the one existing marker
   comment instead of creating another, so after any sequence of calls the
   pull request holds at most one comment with the marker, however many
   other comments it has and also when two runs call it at overlapping
   times. *)
C23_OneMarkerComment == Cardinality(MarkerComments) <= 1

\* The same for calls that come one after the other on a pull request whose
\* comments fit the first page.
OneMarkerCommentInTurnOnFirstPage ==
    (~pr.overlapped /\ Len(pr.comments) <= per_page) => Cardinality(MarkerComments) <= 1

OneMarkerCommentInTurn == ~pr.overlapped => Cardinality(MarkerComments) <= 1

C23_Witness ==
    /\ Cardinality(MarkerComments) = 1
    /\ \E r \in Runs : pr.run[r].calls = 2 /\ pr.run[r].pc = "idle"

(***************************************************************************)
(* A failed run leaves a comment                                           *)
(***************************************************************************)

RunEnded == entry = "run" /\ pc = "done"

HasPosted(c) == \E k \in 1..Len(posted) : posted[k] = c

HasPostedKind(kind) == \E k \in 1..Len(posted) : posted[k].kind = kind

\* The run ended in failure before any scanner was started and without
\* having seen an empty diff: normalizeDiff threw.
DiffFetchThrew ==
    /\ exit = "failed"
    /\ \A i \in Scanners : scan[i] = ScanIdle
    /\ ~HasPostedKind("no-changes")

AllScannersFailed ==
    /\ Len(scannerResults) > 0
    /\ \A k \in 1..Len(scannerResults) : ~scannerResults[k].success

JudgeCallFailed == judgeResult.kind = "JudgeResult" /\ ~judgeResult.success

(* C24: every failed run of the Action entry point run() still attempts to
   upsert a pull-request comment that explains the failure before the run
   ends: when the diff fetch throws (the error text), when all scanners fail
   (the all-scanners-failed text), and when the judge call fails after its
   retries (the judge error text). *)
C24_FailedRunLeavesComment ==
    RunEnded =>
        /\ DiffFetchThrew => HasPosted(Comment("error", DiffFailed.message))
        /\ AllScannersFailed => HasPostedKind("all-scanners-failed")
        /\ JudgeCallFailed =>
              HasPosted(Comment("review", <<"Review", "aggregation", "failed:">>
                                              \o judgeResult.error))
        /\ exit = "failed" => HasPostedKind("error")

C24_Witness ==
    /\ RunEnded
    /\ JudgeCallFailed
    /\ judge.requests = maxRetries
    /\ HasPostedKind("review")

C24_WitnessDiff == RunEnded /\ DiffFetchThrew /\ Len(posted) = 1

C24_WitnessScanners == RunEnded /\ AllScannersFailed /\ Len(posted) = 1

CliEnded == entry = "reviewPR" /\ pc = "done"

\* judgeReviews threw: for want of a successful scanner result, or with the
\* error of the judge call.
CliNoScannerSucceeded == judgeResult = Thrown(NoSuccessfulError)

CliJudgeCallFailed == judgeResult.kind = "thrown" /\ judgeResult # Thrown(NoSuccessfulError)

(* C25: every failed run of the CLI pipeline (main() calling reviewPR() with
   posting enabled) still attempts to post a failure explanation to the pull
   request before the process exits, both when all scanners fail and when
   the judge call fails. *)
C25_FailedCliRunLeavesComment ==
    (CliEnded /\ (CliNoScannerSucceeded \/ CliJudgeCallFailed)) => Len(posted) > 0

\* What does hold: such a run ends in failure and nothing is posted.
FailedCliRunPostsNothing ==
    (CliEnded /\ (CliNoScannerSucceeded \/ CliJudgeCallFailed)) =>
        posted = <<>> /\ exit = "failed"

\* The judge model call of the run gave up with an error.
JudgeCallGaveUp == judge.pc = "done" /\ judge.step.next = "throw"

(* C26: a judge model call that fails after its retries are exhausted is
   fatal for the run: the failure propagates out of the pipeline, so run()
   and reviewPR() do not finish along their success path (no 'review
   completed successfully' outcome, no zero exit status) after a failed
   judge call. *)
C26_JudgeFailureIsFatal ==
    (entry \in {"run", "reviewPR"} /\ pc = "done" /\ JudgeCallGaveUp) => exit = "failed"

\* What does hold: it is fatal for reviewPR(); run() ends as the post of the
\* comment ends.
JudgeFailureIsFatalForCli ==
    (entry = "reviewPR" /\ pc = "done" /\ JudgeCallGaveUp) =>
        exit = "failed" /\ judgeResult = Thrown(judge.step.error)

(***************************************************************************)
(* Sibling calls                                                           *)
(***************************************************************************)

\* Whatever the other calls are doing, the call of scanner j can take its
\* next step: handle any response to its request, or end its sleep.
CanGoOn(j) ==
    /\ scan[j].pc = "sleep" => ENABLED ScannerSleepDone(j)
    /\ scan[j].pc = "fetch" =>
          \A resp \in ScannerResponses :
              \E jitterAmount \in Jitters : ENABLED ScannerFetchSettles(j, resp, jitterAmount)

\* A step of one call (its timeout included) changes no other call.
OneCallPerStep ==
    (pc = "scanning" /\ pc' = "scanning") =>
        \A i, j \in Scanners : (i # j /\ scan'[i] # scan[i]) => scan'[j] = scan[j]

(* C27: a timeout or a backoff sleep inside one scanner's model call affects
   only that call: it does not abort the requests of sibling scanner calls
   and does not delay them, so a sibling can send its request, retry and
   complete while the first call is sleeping or timing out. *)
C27_SiblingCallsIndependent ==
    /\ [](pc = "scanning" => \A j \in Scanners : CanGoOn(j))
    /\ [][OneCallPerStep]_vars

\* Scanner 1 sleeps after a timeout, or still waits for its first response,
\* while scanner 2 has retried and completed.
C27_Witness ==
    /\ pc = "scanning"
    /\ scan[1].pc = "sleep"
    /\ scan[1].last = AbortResponse
    /\ scan[2].pc = "done"
    /\ Len(scan[2].sent) = 2
    /\ scan[2].promise.value.success

C27_WitnessTimingOut ==
    /\ pc = "scanning"
    /\ scan[1].pc = "fetch"
    /\ Len(scan[1].sent) = 1
    /\ scan[2].pc = "done"
    /\ Len(scan[2].sent) = 2

(***************************************************************************)
(* The end of the retry schedule                                           *)
(***************************************************************************)

(* C28: after the third failed attempt of a model call, callOpenRouter waits
   4000 ms and only then gives up and raises the error (delay schedule
   1000 ms, 2000 ms, 4000 ms after attempts 1, 2, 3). *)
C28_WaitsAfterThirdFailure ==
    (ConfigCall /\ GaveUp /\ Len(call.history) = 3) => call.sleeps = <<1000, 2000, 4000>>

\* What does hold: the call gives up as soon as the third attempt has failed;
\* its only sleeps are the 1000 ms and the 2000 ms before attempts 2 and 3.
GivesUpAtOnceAfterThirdFailure ==
    (ConfigCall /\ Len(call.history) = 3) =>
        /\ call.pc = "done"
        /\ call.sleeps = <<1000, 2000>>

(***************************************************************************)
(* The attempts of withRetry                                               *)
(***************************************************************************)

\* fn resolved, or rejected, at its k-th invocation.
FnResolved(k) == makeRequestError(call.history[k]) = NoError

FnRejected(k) == ~FnResolved(k)

(* C29: withRetry invokes fn at most maxAttempts times (3 by default); it
   returns the value of the first successful invocation and invokes fn no
   more after it; it invokes fn exactly once when the first error is not
   retryable; and it sleeps only between two attempts, never after the
   final one. *)
C29_WithRetryAttempts ==
    WithRetryCall =>
        /\ call.requests <= 3
        /\ Len(call.history) <= call.requests
        /\ \A k \in 1..Len(call.history) :
              FnResolved(k) =>
                  /\ call.pc = "done"
                  /\ Len(call.history) = k
                  /\ call.requests = k
                  /\ call.result.next = "return"
                  /\ call.result.content = call.history[k].text
                  /\ \A m \in 1..(k - 1) : FnRejected(m)
        /\ (Len(call.history) >= 1 /\ FnRejected(1)
              /\ ~isRetryable(makeRequestError(call.history[1]))) =>
                  /\ call.pc = "done"
                  /\ call.requests = 1
                  /\ call.sleeps = <<>>
                  /\ call.result.next = "throw"
        /\ Len(call.sleeps) = (IF call.pc = "sleep" THEN call.requests
                               ELSE call.requests - 1)
        /\ call.pc = "sleep" => call.requests < 3
        /\ (call.pc = "done" /\ call.requests = 3) => Len(call.sleeps) = 2

C29_Witness ==
    /\ WithRetryCall
    /\ call.pc = "done"
    /\ call.requests = 3
    /\ FnRejected(1) /\ FnRejected(2) /\ FnResolved(3)
    /\ call.result.next = "return"
    /\ Len(call.sleeps) = 2

C29_WitnessGaveUp ==
    /\ WithRetryCall
    /\ GaveUp
    /\ call.requests = 3
    /\ Len(call.sleeps) = 2

C29_WitnessNotRetryable ==
    /\ WithRetryCall
    /\ GaveUp
    /\ call.requests = 1
    /\ IsHttp(call.history[1], 401)

(***************************************************************************)
(* The delays of withRetry                                                 *)
(***************************************************************************)

\* min(initialDelayMs * backoffMultiplier^(k-1), maxDelayMs) with the
\* defaults, written out.
NominalDelay(k) ==
    CASE k = 1 -> 1000 [] k = 2 -> 2000 [] k = 3 -> 4000 [] k = 4 -> 8000
      [] k = 5 -> 16000 [] OTHER -> 30000

(* C30: the delay withRetry computes before retry k (calculateDelay, k
   counted from 1) lies between the nominal delay
   min(initialDelayMs * backoffMultiplier^(k-1), maxDelayMs) and 1.25 times
   that nominal delay; with the defaults (1000 ms, multiplier 2, 3
   attempts) the delay before each retry is therefore strictly greater than
   the delay before the previous one even after jitter. *)
C30_DelayWithinJitter ==
    /\ \A k \in 1..Len(backoff) :
          /\ NominalDelay(k) <= backoff[k]
          /\ 4 * backoff[k] <= 5 * NominalDelay(k)
    /\ \A k \in 2..Len(backoff) : k <= maxAttempts - 1 => backoff[k] > backoff[k - 1]

\* The first retry with all of its jitter, the second with none; and a delay
\* held at maxDelayMs.
C30_Witness ==
    /\ Len(backoff) = MaxRetry
    /\ backoff[1] = 1250
    /\ backoff[2] = 2000
    /\ backoff[6] = 30000
    /\ backoff[7] = 37500

(***************************************************************************)
(* The length of the combined diff                                         *)
(***************************************************************************)

(* C31: the combined diff text returned by normalizeDiff is never longer than
   maxChars: for every list of files and every maxChars > 0,
   truncation.truncatedChars <= maxChars, and truncatedChars equals the
   length of the returned combined diff. *)
C31_DiffWithinMaxChars ==
    DiffReturned =>
        /\ Len(norm.result.combinedDiff) <= norm.maxChars
        /\ norm.result.truncation.truncatedChars <= norm.maxChars
        /\ norm.result.truncation.truncatedChars = Len(norm.result.combinedDiff)

\* A diff of three files cut to exactly maxChars characters.
C31_Witness ==
    /\ DiffReturned
    /\ Len(WithPatch(norm.result.files)) = 3
    /\ norm.result.truncation.originalChars > norm.maxChars
    /\ norm.result.truncation.truncatedChars = norm.maxChars

(***************************************************************************)
(* The severity counts of a FinalReview                                    *)
(***************************************************************************)

Severities == {"critical", "high", "medium", "low", "info"}

\* The number of findings of a severity, counted one finding at a time.
RECURSIVE Tally(_, _)
Tally(findings, sev) ==
    IF findings = <<>> THEN 0
    ELSE (IF Head(findings).severity = sev THEN 1 ELSE 0) + Tally(Tail(findings), sev)

(* C32: in every FinalReview returned by judgeReviews, each entry of stats
   equals the number of findings with that severity, and the five entries
   (critical, high, medium, low, info) add up to the length of findings. *)
C32_StatsTallyFindings ==
    (review.stage = "returned") =>
        LET f == review.final.findings
            st == review.final.stats
        IN  /\ DOMAIN st = Severities
            /\ \A sev \in Severities : st[sev] = Tally(f, sev)
            /\ st.critical + st.high + st.medium + st.low + st.info = Len(f)

\* A medium and a low finding.
C32_Witness ==
    /\ review.stage = "returned"
    /\ Len(review.final.findings) = 2
    /\ review.final.stats.medium = 1
    /\ review.final.stats.low = 1

C32_WitnessInfo ==
    /\ review.stage = "returned"
    /\ review.final.stats.info = 1
    /\ review.final.stats.critical = 1
    /\ review.final.stats.high = 1

(***************************************************************************)
(* The verdict of a response                                               *)
(***************************************************************************)

\* The header lines of a verdict section, in any of the languages.
VerdictHeaderNames ==
    { <<"Verdict">>, <<"Sonuc">>, <<"Hantei">>, <<"Urteil">>, <<"Veredicto">>,
      <<"Veredito">>, <<"Jielun">>, <<"Panjeong">> }

VerdictHeaderLines(lines) ==
    { i \in 1..Len(lines) : \E name \in VerdictHeaderNames : IsHeaderLine(lines[i], name) }

\* The verdict section of a response: the lines under its first verdict
\* header, up to the next line that starts a section. <<>> when the response
\* has no verdict header.
VerdictSection(lines) ==
    IF VerdictHeaderLines(lines) = {} THEN <<>>
    ELSE LET h == CHOOSE i \in VerdictHeaderLines(lines) :
                      \A j \in VerdictHeaderLines(lines) : i <= j
             next == { j \in (h + 1)..Len(lines) : StartsSection(lines[j]) }
             last == IF next = {} THEN Len(lines)
                     ELSE (CHOOSE j \in next : \A m \in next : j <= m) - 1
         IN  SubSeq(lines, h + 1, last)

VerdictSectionFound(lines) == HasText(VerdictSection(lines))

HasApprove(lines) == textIncludes(lines, "approve")

(* C33: parseVerdict gives the English keyword 'approve' precedence over
   every other keyword: any verdict text that contains 'approve'
   case-insensitively yields approve, also when the same text contains a
   request-changes keyword; extractVerdict applies parseVerdict to the
   verdict section alone when that section is found and to the whole
   response only when no verdict section is found. *)
C33_VerdictPrecedence ==
    (review.stage = "returned") =>
        LET r == review.response
            v == extractVerdict(r, review.language)
        IN  /\ HasApprove(r) => parseVerdict(r) = "approve"
            /\ IF VerdictSectionFound(r) THEN v = parseVerdict(VerdictSection(r))
               ELSE IF VerdictHeaderLines(r) = {} THEN v = parseVerdict(r)
               \* a verdict header with nothing under it: either reading
               ELSE v \in {parseVerdict(VerdictSection(r)), parseVerdict(r)}

\* What does hold: the precedence of 'approve' in parseVerdict, and the text
\* extractVerdict hands to it as long as the lines under the first verdict
\* header are not taken up by the header of another section.
VerdictTextWhenSectionHasText ==
    (review.stage = "returned") =>
        LET r == review.response
        IN  /\ HasApprove(r) => parseVerdict(r) = "approve"
            /\ VerdictSectionFound(r) =>
                  extractVerdict(r, review.language) = parseVerdict(VerdictSection(r))
            /\ VerdictHeaderLines(r) = {} =>
                  extractVerdict(r, review.language) = parseVerdict(r)

(***************************************************************************)
(* run() on an empty diff                                                  *)
(***************************************************************************)

\* run() ended after normalizeDiff returned an empty combined diff.
EmptyDiffRun == RunEnded /\ input.diff = "" /\ ~DiffFetchThrew

NoRequestSent == judge.sent = <<>> /\ \A i \in Scanners : scan[i].sent = <<>>

NoChangesComment == Comment("no-changes", <<>>)

(* C34: when the normalized diff text is empty, run() sends no request to
   any scanner model or to the judge model and upserts exactly one comment
   saying that no code changes were detected. An upsert that fails throws
   into run()'s catch, whose one attempt to post the error text is the only
   other thing such a run can do. *)
C34_EmptyDiffOnlyComments ==
    EmptyDiffRun =>
        /\ NoRequestSent
        /\ judge = JudgeIdle /\ \A i \in Scanners : scan[i] = ScanIdle
        /\ Len(posted) >= 1 /\ posted[1] = NoChangesComment
        /\ \A k \in 2..Len(posted) : posted[k].kind = "error"
        /\ Len(posted) <= 2
        /\ exit = "ok" => posted = << NoChangesComment >>
        /\ exit = "failed" => Len(posted) = 2

C34_Witness == EmptyDiffRun /\ exit = "ok" /\ posted = << NoChangesComment >>

(***************************************************************************)
(* The outcomes of runSingleScanner                                        *)
(***************************************************************************)

ScannerStatus == {"OK", "SKIPPED", "FAILED"}

\* Scanner i of the config-driven pipeline has returned its outcome.
ScannerReturned(i) == ClientOf(entry) = "config" /\ scan[i].pc = "done"

(* C38: every scanner outcome produced by runSingleScanner is consistent:
   success is true exactly when status is OK or SKIPPED and false exactly
   when status is FAILED; a FAILED outcome has an error message, empty
   output and tokensUsed = 0; an OK or SKIPPED outcome has no error
   message. *)
C38_ScannerOutcomeConsistent ==
    \A i \in Scanners :
        ScannerReturned(i) =>
            /\ ~scan[i].promise.rejected
            /\ LET o == scan[i].promise.value
               IN  /\ o.status \in ScannerStatus
                   /\ o.success <=> o.status \in {"OK", "SKIPPED"}
                   /\ ~o.success <=> o.status = "FAILED"
                   /\ o.status = "FAILED" =>
                         /\ o.error # <<>>
                         /\ o.output = <<>>
                         /\ o.tokensUsed = 0
                   /\ o.status \in {"OK", "SKIPPED"} => o.error = <<>>

C38_Witness ==
    /\ ScannerReturned(1) /\ scan[1].promise.value.status = "FAILED"
    /\ ScannerReturned(2) /\ scan[2].promise.value.status = "SKIPPED"

C38_WitnessOk ==
    /\ ScannerReturned(1) /\ scan[1].promise.value.status = "OK"
    /\ scan[1].promise.value.tokensUsed > 0

(***************************************************************************)
(* The timeout timers of a model call                                      *)
(***************************************************************************)

CallEnded == call.pc = "done"

\* The timer of attempt k is armed although the attempt is over.
TimerOutlivesAttempt(k) ==
    /\ k \in 1..Len(call.timers)
    /\ call.timers[k] = "armed"
    /\ ~(call.pc = "fetch" /\ k = Len(call.timers))

NetworkErrorSeen ==
    \E k \in 1..Len(call.history) : call.history[k].kind = "network"

(* C39: when callOpenRouter returns or throws, no timeout timer armed by
   any of its attempts is still pending: every attempt's timer is cleared
   when that attempt ends, whether it ended with a response, an HTTP error,
   a network error or an abort. *)
C39_NoTimerOutlivesAttempt ==
    /\ CallEnded => \A k \in 1..Len(call.timers) : call.timers[k] # "armed"
    /\ \A k \in 1..maxRetries : ~TimerOutlivesAttempt(k)

\* What does hold: makeRequest leaves no timer behind, and callOpenRouter
\* leaves none as long as no fetch was rejected by a network error.
TimersClearedUnlessNetworkError ==
    (call.client = "withRetry" \/ ~NetworkErrorSeen) =>
        \A k \in 1..maxRetries : ~TimerOutlivesAttempt(k)

(***************************************************************************)
(* The pool of parallel                                                    *)
(***************************************************************************)

\* The workers whose invocation of fn has not settled yet.
InFlight == { w \in 1..Len(par.workers) : par.workers[w].pc = "await" }

InvokedOnce ==
    \A a, b \in 1..Len(par.started) : a # b => par.started[a] # par.started[b]

(* C35: during parallel(items, fn, {concurrency}), at every moment at most
   min(concurrency, items.length) invocations of fn are in flight, and fn is
   invoked at most once for each item index, under every interleaving of
   task completions. *)
C35_PoolBound ==
    (par.mode = "parallel") =>
        /\ Cardinality(InFlight) <= Min(par.opts.concurrency, Len(par.items))
        /\ InvokedOnce
        /\ \A k \in 1..Len(par.started) : par.started[k] \in 0..(Len(par.items) - 1)

\* Three items through a pool of two: the third was started by a worker
\* whose first task had settled, and two invocations are in flight.
C35_Witness ==
    /\ par.mode = "parallel"
    /\ par.opts.concurrency = 2
    /\ Len(par.items) = 3
    /\ Len(par.started) = 3
    /\ Cardinality(InFlight) = 2

(***************************************************************************)
(* The result array of parallel and allSettled                             *)
(***************************************************************************)

NeverRejects == par.mode = "allSettled" \/ (par.mode = "parallel" /\ ~par.opts.stopOnError)

FailureOf(index) ==
    { f \in { par.failures[k] : k \in 1..Len(par.failures) } : f.index = index }

\* Position index of the returned array a holds the TaskResult of item
\* index: what fn did for that item, under its index.
HoldsTaskResult(a, index) ==
    LET r == a[index + 1]
    IN  /\ r # EmptySlot
        /\ r.index = index
        /\ r.success <=> FailureOf(index) = {}
        /\ r.success => r.result = fnResult(par.items[index + 1], index)
        /\ ~r.success => \E f \in FailureOf(index) : r.error = toError(f.error)

ResultArrayComplete ==
    /\ par.promise.state # "rejected"
    /\ par.promise.state = "fulfilled" =>
          /\ Len(par.promise.value) = Len(par.items)
          /\ \A index \in 0..(Len(par.items) - 1) :
                HoldsTaskResult(par.promise.value, index)

(* C36: parallel with stopOnError=false and allSettled never reject, and
   they return an array of the same length as items in which position i
   holds the TaskResult of item i with index=i: success=true with the value
   when fn(items[i]) fulfilled, success=false with the error when it
   rejected, whatever the completion order. *)
C36_ResultsByPosition == NeverRejects => ResultArrayComplete

AllItemsDefined == \A k \in 1..Len(par.items) : par.items[k] # Undefined

\* What does hold: the statement for allSettled, and for parallel over items
\* none of which is undefined.
ResultsByPositionOfDefinedItems ==
    (NeverRejects /\ (par.mode = "allSettled" \/ AllItemsDefined)) => ResultArrayComplete

\* Out-of-order completion: the task of the last item settled first.
ResultsOutOfOrder ==
    /\ NeverRejects
    /\ par.promise.state = "fulfilled"
    /\ Len(par.items) = 3
    /\ Len(par.failures) = 2
    /\ par.failures[1].index = 2

(***************************************************************************)
(* stopOnError                                                             *)
(***************************************************************************)

StopsOnError == par.mode = "parallel" /\ par.opts.stopOnError

(* C37: with stopOnError=true, once an invocation of fn has failed parallel
   starts no further item (tasks already in flight may still finish), and
   parallel rejects with the error of the first failure. *)
C37_StopOnError ==
    [][ (StopsOnError /\ par'.failures # <<>>) =>
            /\ par'.started = par.started
            /\ par'.currentIndex = par.currentIndex
            /\ par'.promise = ParRejected(par'.failures[1].error) ]_vars

\* A failure left an item unstarted: the worker whose task finished after
\* the failure returned instead of taking the next item.
C37_Witness ==
    /\ StopsOnError
    /\ Len(par.failures) = 1
    /\ InFlight = {}
    /\ par.currentIndex < Len(par.items)
    /\ AllItemsDefined
    /\ \E w \in 1..Len(par.workers) : par.workers[w].pc = "returned"
    /\ par.promise = ParRejected(par.failures[1].error)

\* A task in flight at the first failure failed after it: the rejection
\* keeps the first error.
C37_WitnessSecondFailure ==
    /\ StopsOnError
    /\ Len(par.failures) = 2
    /\ par.failures[1].error # par.failures[2].error
    /\ par.promise = ParRejected(par.failures[1].error)

====
